---- MODULE Spec2Model ----
(***************************************************************************)
(* WebPod: the Device Session (webpod/ipod_manager.py, class IPodManager)  *)
(* and the request handlers of webpod/app.py that drive it.                *)
(*                                                                         *)
(* Threads call the operations of the one IPodManager of the process.      *)
(* Every operation is "with self._lock: body"; a thread is modelled by     *)
(* Acquire (entering the with block), the body of the operation it called  *)
(* (one step, except sync, whose reopen is a second step) and the release  *)
(* that ends it.                                                           *)
(* The catalog (gpod.Database) is a collaborator: its calls may raise, and *)
(* the outcomes are inputs of the step that makes the call.                *)
(*                                                                         *)
(* The Cache Store (webpod/models.py, table library_tracks) and the        *)
(* scanner that fills it (webpod/library_scanner.py) are the second part:  *)
(* a scan is one step, the whole of scan_directory.                        *)
(***************************************************************************)
EXTENDS Integers, Sequences, FiniteSets, TLC

VARIABLES
    db,          \* self._db: "None", or the state of the handle object it refers to
    mountpoint,  \* self._mountpoint: "None" or a mount point
    lock,        \* self._lock: 0 when free, else the thread holding it
    pc,          \* per thread: "idle", "waiting" (at the entry of a with block), "in"
                 \* (inside a with block), "reopen" (sync, after close)
    tracks,      \* the catalog's tracks (DeviceTrack records)
    playlists,   \* the catalog's playlists: id -> [name, master, members]
    tempFiles,   \* the transcoded temporary files that exist on disk
    destDir,     \* whether the export destination directory exists
    dest,        \* the files under it, and the catalog the last export handled in full
    gpod,        \* the gpod module global: "module", or "None" when the import failed
    access,      \* the last access to self._db: [by, locked]
    last,        \* the outcome of the operation that finished last (NoResult once
                 \* another has begun)
    rows,        \* the rows of library_tracks
    seq,         \* the AUTOINCREMENT counter of library_tracks (sqlite_sequence)
    disk,        \* the library files: path -> [present, mtime]
    allow,       \* the setting allow_files_without_metadata
    scan,        \* what the last scan_directory did
    since,       \* what has changed on disk and in the settings since that scan
    jobs,        \* the background tasks of the application: per worker [kind, st, events]
    store        \* library.db besides its rows: [schema, legacy, library_path, inited]

cacheVars == <<rows, seq, disk, allow, scan, since, jobs, store>>

vars == <<db, mountpoint, lock, pc, tracks, playlists, tempFiles, destDir, dest, gpod, access, last,
          rows, seq, disk, allow, scan, since, jobs, store>>

----------------------------------------------------------------------------
(* Bounds of the model *)

NThreads == 2
MaxBatch == 2
MaxTracks == 2
MaxTmp == 1
MaxPlaylists == 2

Threads == 1..NThreads

----------------------------------------------------------------------------
(* The environment: mount points, library files, fingerprints *)

\* gpod.Database(mountpoint) can only succeed on a device catalog.
ValidMounts == {"mpA", "mpB"}
Mounts == ValidMounts \cup {"bad"}

\* The library rows handed to add_tracks (dicts of models.get_tracks_by_ids, or of
\* any other caller): sha1_hash 0 stands for an absent or empty fingerprint.
Lib == {
    [file_path |-> "a.mp3",  sha1_hash |-> 1, is_video |-> FALSE],
    [file_path |-> "c.flac", sha1_hash |-> 2, is_video |-> FALSE],
    [file_path |-> "v.m4v",  sha1_hash |-> 3, is_video |-> TRUE],
    [file_path |-> "n.mp3",  sha1_hash |-> 0, is_video |-> FALSE] }

\* Path(file_path).suffix.lower() == '.flac'
IsFlac(path) == path \in {"c.flac"}

\* sha1_hash(filename) of duplicate_detector.py, as a number per content:
\* size and first 16 KiB decide it.
ContentFp(path) ==
    CASE path = "a.mp3"  -> 1
      [] path = "c.flac" -> 2
      [] path = "v.m4v"  -> 3
      [] path = "ua.mp3" -> 1
      [] path = "w.mp3"  -> 5
      [] path \in {"y.mp3", "y2.mp3", "y (1).mp3", "y2 (1).mp3"} -> 6
      [] OTHER           -> 4

\* A file a device track was created from: a library file (tmp = 0) or the
\* temporary file number tmp that ffmpeg wrote from the library file "of".
LibFile(path) == [tmp |-> 0, of |-> path]
TmpFile(k, path) == [tmp |-> k, of |-> path]

\* The transcoded file has other bytes and another size than its source.
FileFp(f) == IF f.tmp = 0 THEN ContentFp(f.of) ELSE 10 + ContentFp(f.of)

FileExists(f, temps) == f.tmp = 0 \/ f \in temps

----------------------------------------------------------------------------
(* Results *)

NoBatch == << >>

\* What an operation answered (op, err, n, cls), what it was given (arg, batch,
\* pl), which collaborator calls it made (calls, raised, tc, video), the session
\* it found (was, wasMp; plKind: what the playlist id it was given named;
\* before: the tracks of the catalog, for remove_tracks and export_tracks; rerun:
\* the export before it handled every track of the same catalog), whether it left the
\* catalog, the temporary files and the export directory as they were (same) and
\* whether a copy of export_tracks went to a path that existed (over).
Result(o, e, a, c) ==
    [op |-> o, err |-> e, arg |-> a, calls |-> c,
     raised |-> "", batch |-> NoBatch, cls |-> << >>, tc |-> 0, pl |-> 0,
     video |-> "none", n |-> 0, was |-> db, wasMp |-> mountpoint, plKind |-> "none",
     before |-> {}, rerun |-> FALSE, same |-> TRUE, over |-> FALSE]

\* What a playlist id names in the catalog: no playlist, the master playlist or
\* another playlist
PlKind(pls, i) ==
    IF i \notin DOMAIN pls THEN "absent"
    ELSE IF pls[i].master THEN "master" ELSE "plain"

\* No operation has finished since the last one began
NoResult == Result("", "none", "", << >>)

----------------------------------------------------------------------------
(* The lock *)

LockFreeAlways == TRUE

LockFree == lock = 0

\* A caller arrives at "with self._lock:" and is not admitted yet
Call(t) ==
    /\ pc[t] = "idle"
    /\ pc' = [pc EXCEPT ![t] = "waiting"]
    /\ UNCHANGED <<db, mountpoint, lock, tracks, playlists, tempFiles, destDir, dest,
                   gpod, access, last, cacheVars>>

\* with self._lock: (entry)
Acquire(t) ==
    /\ pc[t] \in {"idle", "waiting"}
    /\ LockFree
    /\ lock' = t
    /\ pc' = [pc EXCEPT ![t] = "in"]
    /\ last' = NoResult
    /\ UNCHANGED <<db, mountpoint, tracks, playlists, tempFiles, destDir, dest, gpod, access, cacheVars>>

\* with self._lock: (exit, by return or by exception)
ReleaseNever(t) ==
    /\ lock' = lock
    /\ pc' = [pc EXCEPT ![t] = "idle"]

Release(t) ==
    /\ lock' = 0
    /\ pc' = [pc EXCEPT ![t] = "idle"]

Inside(t) == pc[t] = "in"

Touch(t) == access' = [by |-> t, locked |-> (lock = t)]

----------------------------------------------------------------------------
(* The catalog collaborator (gpod.Database), as the session uses it *)

Min(S) == CHOOSE x \in S : \A y \in S : x <= y

TrackIds(trs) == {tr.id : tr \in trs}

TrackOf(trs, i) == CHOOSE tr \in trs : tr.id = i

FreshId(trs) == Min((1..(Cardinality(trs) + 1)) \ TrackIds(trs))

Pending(trs) == {tr.id : tr \in {x \in trs : ~x.transferred}}

\* Database.copy_delayed_files(): every track not yet transferred is copied to
\* the device in catalog order; the copy fingerprints the source file into the
\* track's userdata. The first failure (source file gone, device not writable:
\* io = FALSE) raises and leaves that track and the later ones pending.
RECURSIVE CopyFrom(_, _, _, _)
CopyFrom(trs, temps, io, ids) ==
    IF ids = {} THEN [tracks |-> trs, ok |-> TRUE]
    ELSE LET i == Min(ids)
             tr == TrackOf(trs, i)
             copied == [tr EXCEPT !.hash = FileFp(tr.src), !.transferred = TRUE]
         IN  IF ~FileExists(tr.src, temps) \/ ~io THEN [tracks |-> trs, ok |-> FALSE]
             ELSE CopyFrom((trs \ {tr}) \cup {copied}, temps, io, ids \ {i})

CopyDelayedFiles(trs, temps, io) == CopyFrom(trs, temps, io, Pending(trs))

----------------------------------------------------------------------------
(* connect / disconnect / sync *)

RequireConnectedNever(d) == TRUE

\* _require_connected
RequireConnected(d) == d # "None"

ConnectBodyOverwrite(d, mp, m, opened) ==
    IF opened THEN [db |-> "open", mountpoint |-> m, err |-> "none"]
    ELSE [db |-> d, mountpoint |-> mp, err |-> "ConnectFailed"]

\* connect, inside the lock: m is the argument, opened whether gpod.Database(m)
\* returned a handle.
ConnectBody(d, mp, m, opened) ==
    IF d # "None" THEN [db |-> d, mountpoint |-> mp, err |-> "AlreadyConnected"]
    ELSE IF opened THEN [db |-> "open", mountpoint |-> m, err |-> "none"]
    ELSE [db |-> d, mountpoint |-> mp, err |-> "ConnectFailed"]

\* connect: the check of the gpod module, before the lock is taken
ConnectNoGpod(t) ==
    /\ pc[t] = "idle"
    /\ gpod = "None"
    /\ \E m \in Mounts :
          last' = Result("connect", "GpodMissing", m, << >>)
    /\ UNCHANGED <<db, mountpoint, lock, pc, tracks, playlists, tempFiles,
                   destDir, dest, gpod, access, cacheVars>>

Connect(t, MountSet) ==
    /\ Inside(t)
    /\ gpod = "module"
    /\ \E m \in MountSet, ok \in BOOLEAN :
          LET r == ConnectBody(db, mountpoint, m, ok /\ m \in ValidMounts)
          IN  /\ db' = r.db
              /\ mountpoint' = r.mountpoint
              /\ last' = [Result("connect", r.err, m,
                                 IF db = "None" THEN <<"Database">> ELSE << >>)
                             EXCEPT !.raised = IF db = "None" /\ ~(ok /\ m \in ValidMounts)
                                               THEN "Database" ELSE ""]
    /\ Touch(t)
    /\ Release(t)
    /\ UNCHANGED <<tracks, playlists, tempFiles, destDir, dest, gpod, cacheVars>>

DisconnectBodyKeep(d, mp, copied, closed) ==
    IF copied /\ closed
    THEN [db |-> "None", mountpoint |-> "None", err |-> "none"]
    ELSE [db |-> d, mountpoint |-> mp, err |-> "DisconnectError"]

\* disconnect, after _require_connected: try copy, close / except / finally
DisconnectBody(d, mp, copied, closed) ==
    [db |-> "None", mountpoint |-> "None",
     err |-> IF copied /\ closed THEN "none" ELSE "DisconnectError"]

Disconnect(t) ==
    /\ Inside(t)
    /\ IF ~RequireConnected(db)
       THEN /\ last' = Result("disconnect", "NotConnected", "", << >>)
            /\ UNCHANGED <<db, mountpoint, tracks>>
       ELSE \E io \in BOOLEAN, closeOk \in BOOLEAN :
               LET c == CopyDelayedFiles(tracks, tempFiles, io)
                   r == DisconnectBody(db, mountpoint, c.ok, closeOk)
               IN  /\ tracks' = c.tracks
                   /\ db' = r.db
                   /\ mountpoint' = r.mountpoint
                   /\ last' = [Result("disconnect", r.err, "",
                                      IF c.ok THEN <<"copy_delayed_files", "close">>
                                      ELSE <<"copy_delayed_files">>)
                                  EXCEPT !.raised = IF ~c.ok THEN "copy_delayed_files"
                                                    ELSE IF ~closeOk THEN "close"
                                                    ELSE "",
                                         !.same = (c.tracks = tracks)]
    /\ Touch(t)
    /\ Release(t)
    /\ UNCHANGED <<playlists, tempFiles, destDir, dest, gpod, cacheVars>>

\* sync, up to the close: copy_delayed_files and close are outside any try, so
\* an exception of either leaves the with block with self._db as it is.
SyncFlush(t) ==
    /\ Inside(t)
    /\ Touch(t)
    /\ IF ~RequireConnected(db)
       THEN /\ last' = Result("sync", "NotConnected", "", << >>)
            /\ Release(t)
            /\ UNCHANGED <<db, mountpoint, tracks>>
       ELSE \E io \in BOOLEAN, closeOk \in BOOLEAN :
               LET c == CopyDelayedFiles(tracks, tempFiles, io)
               IN  /\ tracks' = c.tracks
                   /\ UNCHANGED mountpoint
                   /\ IF ~c.ok
                      THEN /\ db' = "flush_abandoned"
                           /\ last' = [Result("sync", "Exception", "",
                                              <<"copy_delayed_files">>)
                                          EXCEPT !.raised = "copy_delayed_files",
                                                 !.same = (c.tracks = tracks)]
                           /\ Release(t)
                      ELSE IF ~closeOk
                      THEN /\ db' = "close_failed"
                           /\ last' = [Result("sync", "Exception", "",
                                              <<"copy_delayed_files", "close">>)
                                          EXCEPT !.raised = "close",
                                                 !.same = (c.tracks = tracks)]
                           /\ Release(t)
                      ELSE /\ db' = "closed"
                           /\ pc' = [pc EXCEPT ![t] = "reopen"]
                           /\ UNCHANGED <<lock, last>>
    /\ UNCHANGED <<playlists, tempFiles, destDir, dest, gpod, cacheVars>>

SyncReopenBodyKeep(d, mp, opened) ==
    [db |-> IF opened THEN "open" ELSE d, mountpoint |-> mp,
     err |-> IF opened THEN "none" ELSE "ReopenFailed"]

\* sync, the reopen: try gpod.Database(mountpoint) / except
SyncReopenBodyKeepMount(d, mp, opened) ==
    IF opened THEN [db |-> "open", mountpoint |-> mp, err |-> "none"]
    ELSE [db |-> "None", mountpoint |-> mp, err |-> "ReopenFailed"]

SyncReopenBody(d, mp, opened) ==
    IF opened THEN [db |-> "open", mountpoint |-> mp, err |-> "none"]
    ELSE [db |-> "None", mountpoint |-> "None", err |-> "ReopenFailed"]

SyncReopen(t) ==
    /\ pc[t] = "reopen"
    /\ \E ok \in BOOLEAN :
          LET r == SyncReopenBody(db, mountpoint, ok)
          IN  /\ db' = r.db
              /\ mountpoint' = r.mountpoint
              /\ last' = [Result("sync", r.err, "",
                                 <<"copy_delayed_files", "close", "Database">>)
                             EXCEPT !.raised = IF ok THEN "" ELSE "Database"]
    /\ Touch(t)
    /\ Release(t)
    /\ UNCHANGED <<tracks, playlists, tempFiles, destDir, dest, gpod, cacheVars>>

----------------------------------------------------------------------------
(* add_tracks *)

\* What happens to one candidate, decided by the collaborators:
\*   "ok"          every step succeeds (a FLAC is transcoded first)
\*   "direct"      the transcode_flac_to_ipod setting is '0': the source is used
\*   "tc_none"     transcode_flac_to_alac returns None
\*   "tc_raise"    models.get_setting or transcode_flac_to_alac raises
\*                 (get_db failing, tempfile.mkstemp failing: outside any try)
\*   "create_fail" new_Track raises
\*   "post_fail"   a step after new_Track raises (mediatype, target_pl.add)
Outcomes == {"ok", "direct", "tc_none", "tc_raise", "create_fail", "post_fail"}

OutcomesOf(cand) ==
    IF IsFlac(cand.file_path) THEN Outcomes ELSE {"ok", "create_fail", "post_fail"}

OutcomeSeqs(batch) ==
    {outs \in [1..Len(batch) -> Outcomes] :
        \A i \in 1..Len(batch) : outs[i] \in OutcomesOf(batch[i])}

Batches == UNION {[1..n -> Lib] : n \in 1..MaxBatch}

\* playlist_id: None (0), a playlist id, or an id no playlist has
Targets == 0..(MaxPlaylists + 1)

\* existing_hashes: the sha1_hash of every device track whose userdata has one
ExistingHashes(trs) == {tr.hash : tr \in {x \in trs : x.hash # 0}}

\* tempfile.mkstemp: a name that no existing file has
FreshTmp(temps) == Min((1..(MaxTmp + 1)) \ {f.tmp : f \in temps})

\* Database.new_Track(filename=f): a track with no fingerprint in its userdata,
\* not yet transferred, added to the catalog and to the master playlist.
\* (reported: how the add_tracks call that created the track classified its
\* candidate; the catalog does not hold it.)
NewTrack(trs, f, rep) ==
    [id |-> FreshId(trs), hash |-> 0, transferred |-> FALSE, src |-> f,
     reported |-> rep]

MasterId(pls) == CHOOSE i \in DOMAIN pls : pls[i].master

AddMember(pls, i, tid) ==
    [pls EXCEPT ![i] = [@ EXCEPT !.members = @ \cup {tid}]]

ExtendNever(h) == FALSE

\* if track_hash: existing_hashes.add(track_hash)
Extend(h) == h # 0

IsDuplicateNever(h, existing) == FALSE

\* if track_hash in existing_hashes
IsDuplicateAlways(h, existing) == TRUE

IsDuplicate(h, existing) == h \in existing

StartAcc(trs, pls, temps) ==
    [tracks |-> trs, playlists |-> pls, existing |-> ExistingHashes(trs),
     cls |-> << >>, made |-> {}, tempFiles |-> temps, tc |-> 0,
     escaped |-> FALSE, overflow |-> FALSE]

Classify(a, c) == [a EXCEPT !.cls = Append(@, c)]

\* One iteration of "for lib_track in library_tracks", with outcome o; target
\* is the target playlist id (0 for None).
AddOne(a, cand, o, target) ==
    LET h == cand.sha1_hash
        transcode == IsFlac(cand.file_path) /\ o # "direct"
        k == FreshTmp(a.tempFiles)
        tmp == TmpFile(k, cand.file_path)
        b == IF transcode THEN [a EXCEPT !.tc = @ + 1] ELSE a
    IN  IF IsDuplicate(h, a.existing) THEN Classify(a, "skipped")
        ELSE IF transcode /\ o = "tc_raise" THEN [b EXCEPT !.escaped = TRUE]
        ELSE IF transcode /\ o = "tc_none" THEN Classify(b, "error")
        ELSE IF transcode /\ k > MaxTmp THEN [b EXCEPT !.overflow = TRUE]
        ELSE
          LET f == IF transcode THEN tmp ELSE LibFile(cand.file_path)
              c == IF transcode
                   THEN [b EXCEPT !.tempFiles = @ \cup {tmp}, !.made = @ \cup {tmp}]
                   ELSE b
              tr == NewTrack(c.tracks, f, IF o = "post_fail" THEN "error" ELSE "added")
              d == [c EXCEPT !.tracks = @ \cup {tr},
                             !.playlists = AddMember(@, MasterId(@), tr.id)]
              e == IF target # 0
                   THEN [d EXCEPT !.playlists = AddMember(@, target, tr.id)]
                   ELSE d
              g == IF Extend(h) THEN [e EXCEPT !.existing = @ \cup {h}] ELSE e
          IN  IF o = "create_fail" THEN Classify(c, "error")
              ELSE IF o = "post_fail" THEN Classify(d, "error")
              ELSE Classify(g, "added")

\* The loop: it stops where an exception escapes it.
RECURSIVE AddLoop(_, _, _, _, _)
AddLoop(a, batch, outs, target, i) ==
    IF i > Len(batch) \/ a.escaped \/ a.overflow THEN a
    ELSE AddLoop(AddOne(a, batch[i], outs[i], target), batch, outs, target, i + 1)

CleanupNothing(a) == a

\* "Clean up temporary transcoded files": reached when the loop ends normally
Cleanup(a) ==
    IF a.escaped THEN a ELSE [a EXCEPT !.tempFiles = @ \ a.made]

\* _find_playlist: KeyError of the catalog becomes "not found"
Found(pls, i) == i \in DOMAIN pls

\* any(t.get('is_video') for t in library_tracks)
HasVideos(batch) == \E i \in 1..Len(batch) : batch[i].is_video

VideoRejectedNever(batch, support) == FALSE

\* has_videos and not video_support (an exception of the query counts as False)
VideoRejected(batch, support) == HasVideos(batch) /\ support # "yes"

\* gpod.itdb_device_supports_video(device): asked only when the batch has a video
SupportAnswers(batch) == IF HasVideos(batch) THEN {"yes", "no", "raise"} ELSE {"yes"}

TargetMissingNever(pls, target) == FALSE

\* target_pl = self._find_playlist(playlist_id) raises: playlist_id is not None
\* and no playlist has it
TargetMissing(pls, target) == target # 0 /\ ~Found(pls, target)

AddResult(e, batch, target, support, a) ==
    [Result("add_tracks", e, "", IF e = "NotConnected" THEN << >> ELSE <<"catalog">>)
        EXCEPT !.batch = batch, !.cls = a.cls, !.tc = a.tc, !.pl = target,
               !.plKind = IF target = 0 THEN "none" ELSE PlKind(playlists, target),
               !.video = IF e # "NotConnected" /\ HasVideos(batch) THEN support ELSE "none"]

AddTracks(t, BatchSet, TargetSet) ==
    /\ Inside(t)
    /\ Touch(t)
    /\ Release(t)
    /\ UNCHANGED <<db, mountpoint, destDir, dest, gpod, cacheVars>>
    /\ \E batch \in BatchSet, target \in TargetSet :
       \E support \in SupportAnswers(batch) :
          LET start == StartAcc(tracks, playlists, tempFiles)
          IN  IF ~RequireConnected(db)
              THEN /\ last' = AddResult("NotConnected", batch, target, support, start)
                   /\ UNCHANGED <<tracks, playlists, tempFiles>>
              ELSE IF VideoRejected(batch, support)
              THEN /\ last' = AddResult("Unsupported", batch, target, support, start)
                   /\ UNCHANGED <<tracks, playlists, tempFiles>>
              ELSE IF TargetMissing(playlists, target)
              THEN /\ last' = AddResult("NotFound", batch, target, support, start)
                   /\ UNCHANGED <<tracks, playlists, tempFiles>>
              ELSE \E outs \in OutcomeSeqs(batch) :
                      \E a \in {Cleanup(AddLoop(start, batch, outs, target, 1))} :
                          /\ ~a.overflow
                          /\ Cardinality(a.tracks) <= MaxTracks
                          /\ tracks' = a.tracks
                          /\ playlists' = a.playlists
                          /\ tempFiles' = a.tempFiles
                          /\ last' = [AddResult(IF a.escaped THEN "Exception" ELSE "none",
                                                batch, target, support, a)
                                         EXCEPT !.raised = IF a.escaped THEN "transcode"
                                                           ELSE "",
                                                !.same = (/\ a.tracks = tracks
                                                          /\ a.playlists = playlists
                                                          /\ a.tempFiles = tempFiles)]

----------------------------------------------------------------------------
(* Reads, playlists, remove_tracks, export_tracks *)

ReadOps == {"get_tracks", "get_playlists", "get_albums", "get_artists", "get_genres",
            "get_album_tracks", "get_storage_info", "get_device_info", "supports_video"}

Names == {"Mix", "Fav"}

PlaylistIds == 1..(MaxPlaylists + 1)

\* get_tracks, get_playlists, get_albums, get_artists, get_genres,
\* get_album_tracks, get_storage_info, get_device_info, supports_video
Read(t) ==
    /\ Inside(t)
    /\ \E kind \in ReadOps :
          last' = IF RequireConnected(db)
                  THEN Result(kind, "none", "", <<kind>>)
                  ELSE Result(kind, "NotConnected", "", << >>)
    /\ Touch(t)
    /\ Release(t)
    /\ UNCHANGED <<db, mountpoint, tracks, playlists, tempFiles, destDir, dest, gpod, cacheVars>>

\* get_status: the one operation that answers while Disconnected
GetStatus(t) ==
    /\ Inside(t)
    /\ last' = [Result("get_status", "none", "",
                       IF db = "None" THEN << >> ELSE <<"len">>)
                   EXCEPT !.n = IF db = "None" THEN 0 ELSE Cardinality(tracks)]
    /\ Touch(t)
    /\ Release(t)
    /\ UNCHANGED <<db, mountpoint, tracks, playlists, tempFiles, destDir, dest, gpod, cacheVars>>

GetPlaylistTracks(t) ==
    /\ Inside(t)
    /\ \E i \in PlaylistIds :
          last' = IF ~RequireConnected(db)
                  THEN Result("get_playlist_tracks", "NotConnected", "", << >>)
                  ELSE IF ~Found(playlists, i)
                  THEN [Result("get_playlist_tracks", "NotFound", "", <<"Playlists">>)
                           EXCEPT !.pl = i, !.plKind = PlKind(playlists, i)]
                  ELSE [Result("get_playlist_tracks", "none", "", <<"Playlists">>)
                           EXCEPT !.pl = i, !.plKind = PlKind(playlists, i),
                                  !.n = Cardinality(playlists[i].members)]
    /\ Touch(t)
    /\ Release(t)
    /\ UNCHANGED <<db, mountpoint, tracks, playlists, tempFiles, destDir, dest, gpod, cacheVars>>

FreshPlaylist(pls) == Min((1..(Cardinality(DOMAIN pls) + 1)) \ DOMAIN pls)

CreatePlaylist(t) ==
    /\ Inside(t)
    /\ \E name \in Names :
          IF ~RequireConnected(db)
          THEN /\ last' = Result("create_playlist", "NotConnected", name, << >>)
               /\ UNCHANGED playlists
          ELSE LET i == FreshPlaylist(playlists)
               IN  /\ Cardinality(DOMAIN playlists) < MaxPlaylists
                   /\ playlists' = [j \in DOMAIN playlists \cup {i} |->
                                      IF j = i
                                      THEN [name |-> name, master |-> FALSE, members |-> {}]
                                      ELSE playlists[j]]
                   /\ last' = [Result("create_playlist", "none", name, <<"new_Playlist">>)
                                  EXCEPT !.pl = i, !.same = FALSE]
    /\ Touch(t)
    /\ Release(t)
    /\ UNCHANGED <<db, mountpoint, tracks, tempFiles, destDir, dest, gpod, cacheVars>>

ProtectedNever(pl) == FALSE

\* if pl.master: raise IPodError("Cannot rename / delete the master playlist")
Protected(pl) == pl.master

RenamePlaylist(t) ==
    /\ Inside(t)
    /\ \E i \in PlaylistIds, name \in Names :
          IF ~RequireConnected(db)
          THEN /\ last' = Result("rename_playlist", "NotConnected", name, << >>)
               /\ UNCHANGED playlists
          ELSE IF ~Found(playlists, i)
          THEN /\ last' = [Result("rename_playlist", "NotFound", name, <<"Playlists">>)
                              EXCEPT !.pl = i, !.plKind = PlKind(playlists, i)]
               /\ UNCHANGED playlists
          ELSE IF Protected(playlists[i])
          THEN /\ last' = [Result("rename_playlist", "MasterPlaylist", name, <<"Playlists">>)
                              EXCEPT !.pl = i, !.plKind = PlKind(playlists, i)]
               /\ UNCHANGED playlists
          ELSE /\ playlists' = [playlists EXCEPT ![i] = [@ EXCEPT !.name = name]]
               /\ last' = [Result("rename_playlist", "none", name, <<"Playlists">>)
                              EXCEPT !.pl = i, !.plKind = PlKind(playlists, i),
                                     !.same = (playlists[i].name = name)]
    /\ Touch(t)
    /\ Release(t)
    /\ UNCHANGED <<db, mountpoint, tracks, tempFiles, destDir, dest, gpod, cacheVars>>

DeletePlaylist(t) ==
    /\ Inside(t)
    /\ \E i \in PlaylistIds :
          IF ~RequireConnected(db)
          THEN /\ last' = Result("delete_playlist", "NotConnected", "", << >>)
               /\ UNCHANGED playlists
          ELSE IF ~Found(playlists, i)
          THEN /\ last' = [Result("delete_playlist", "NotFound", "", <<"Playlists">>)
                              EXCEPT !.pl = i, !.plKind = PlKind(playlists, i)]
               /\ UNCHANGED playlists
          ELSE IF Protected(playlists[i])
          THEN /\ last' = [Result("delete_playlist", "MasterPlaylist", "", <<"Playlists">>)
                              EXCEPT !.pl = i, !.plKind = PlKind(playlists, i)]
               /\ UNCHANGED playlists
          ELSE /\ playlists' = [j \in DOMAIN playlists \ {i} |-> playlists[j]]
               /\ last' = [Result("delete_playlist", "none", "", <<"Playlists", "remove">>)
                              EXCEPT !.pl = i, !.plKind = PlKind(playlists, i),
                                     !.same = FALSE]
    /\ Touch(t)
    /\ Release(t)
    /\ UNCHANGED <<db, mountpoint, tracks, tempFiles, destDir, dest, gpod, cacheVars>>

IdSets == SUBSET (1..(MaxTracks + 1))

AddToPlaylist(t, IdSetSet) ==
    /\ Inside(t)
    /\ \E i \in PlaylistIds, ids \in IdSetSet :
          IF ~RequireConnected(db)
          THEN /\ last' = Result("add_to_playlist", "NotConnected", "", << >>)
               /\ UNCHANGED playlists
          ELSE IF ~Found(playlists, i)
          THEN /\ last' = [Result("add_to_playlist", "NotFound", "", <<"Playlists">>)
                              EXCEPT !.pl = i, !.plKind = PlKind(playlists, i)]
               /\ UNCHANGED playlists
          ELSE LET hit == TrackIds(tracks) \cap ids
               IN  /\ playlists' = [playlists EXCEPT ![i] =
                                      [@ EXCEPT !.members = @ \cup hit]]
                   /\ last' = [Result("add_to_playlist", "none", "", <<"Playlists", "add">>)
                                  EXCEPT !.pl = i, !.plKind = PlKind(playlists, i),
                                         !.n = Cardinality(hit),
                                         !.same = (hit \subseteq playlists[i].members)]
    /\ Touch(t)
    /\ Release(t)
    /\ UNCHANGED <<db, mountpoint, tracks, tempFiles, destDir, dest, gpod, cacheVars>>

ToRemoveAny(trs, ids) == IF TrackIds(trs) \cap ids = {} THEN {} ELSE trs

\* to_remove: the tracks of the catalog whose id is in ipod_track_ids
ToRemove(trs, ids) == {tr \in trs : tr.id \in ids}

RemoveTracks(t, IdSetSet) ==
    /\ Inside(t)
    /\ \E ids \in IdSetSet :
          IF ~RequireConnected(db)
          THEN /\ last' = Result("remove_tracks", "NotConnected", ids, << >>)
               /\ UNCHANGED <<tracks, playlists>>
          ELSE LET to_remove == ToRemove(tracks, ids)
                   hit == TrackIds(to_remove)
               IN  /\ tracks' = tracks \ to_remove
                   /\ playlists' = [j \in DOMAIN playlists |->
                                      [playlists[j] EXCEPT !.members = @ \ hit]]
                   /\ last' = [Result("remove_tracks", "none", ids, <<"remove">>)
                                  EXCEPT !.n = Cardinality(to_remove),
                                         !.before = tracks,
                                         !.same = (to_remove = {})]
    /\ Touch(t)
    /\ Release(t)
    /\ UNCHANGED <<db, mountpoint, tempFiles, destDir, dest, gpod, cacheVars>>

\* What the catalog read from the tags of the file a track was created from
TitleOf(f) ==
    CASE f.of = "a.mp3"  -> "A/B"
      [] f.of = "n.mp3"  -> "A:B"
      [] f.of = "c.flac" -> "C"
      [] OTHER           -> "V"

\* _sanitize_filename: each of < > : " / \ | ? * becomes _
Sanitize(name) == IF name \in {"A/B", "A:B"} THEN "A_B" ELSE name

\* os.path.splitext(source_path): the file on the device keeps the extension of
\* the file it was copied from (the transcoded file is an .m4a)
ExtOf(f) ==
    IF f.tmp # 0 THEN ".m4a"
    ELSE CASE f.of = "c.flac" -> ".flac"
           [] f.of = "v.m4v"  -> ".m4v"
           [] OTHER           -> ".mp3"

\* os.path.getsize of the file on the device, in some unit
SizeOf(f) ==
    IF f.tmp # 0 THEN 7
    ELSE CASE f.of = "a.mp3"  -> 3
           [] f.of = "n.mp3"  -> 4
           [] f.of = "c.flac" -> 9
           [] OTHER           -> 8

MaxFiles == 3

\* error_details: errors[:10]
MaxErrorDetails == 10

\* dest_dir/safe_title ext, or dest_dir/safe_title (k) ext for k > 0 (every
\* track of the model has the same artist and album)
DestPath(tr, k) == [base |-> Sanitize(TitleOf(tr.src)), ext |-> ExtOf(tr.src), k |-> k]

\* os.path.exists(dest_path)
Exists(files, p) == \E f \in files : f.path = p

\* os.path.getsize(source_path) == os.path.getsize(dest_path)
SameSize(files, p, tr) == (CHOOSE f \in files : f.path = p).size = SizeOf(tr.src)

\* "while os.path.exists(dest_path)": the first counter whose name is free
FreeSuffixNone(files, tr, k) == k

RECURSIVE FreeSuffix(_, _, _)
FreeSuffix(files, tr, k) ==
    IF Exists(files, DestPath(tr, k)) THEN FreeSuffix(files, tr, k + 1) ELSE k

\* What can go wrong for one track: os.makedirs(dest_dir) raises, getsize
\* raises OSError, shutil.copy2 raises
ExportOutcomes == {"ok", "mkdir_fail", "size_fail", "copy_fail"}

ExportClassify(a, c) ==
    [a EXCEPT !.cls = Append(@, c), !.errors = IF c = "error" THEN @ + 1 ELSE @]

\* One iteration of "for i in range(total)"
ExportOne(a, tr, o) ==
    LET p0 == DestPath(tr, 0)
        p == DestPath(tr, FreeSuffix(a.files, tr, 0))
    IN  IF ~tr.transferred THEN ExportClassify(a, "error")
        ELSE IF o = "mkdir_fail" THEN [a EXCEPT !.escaped = TRUE]
        ELSE IF Exists(a.files, p0) /\ o # "size_fail" /\ SameSize(a.files, p0, tr)
        THEN ExportClassify(a, "skipped")
        ELSE IF o = "copy_fail" THEN ExportClassify(a, "error")
        ELSE ExportClassify([a EXCEPT !.files = {f \in @ : f.path # p}
                                                 \cup {[path |-> p, size |-> SizeOf(tr.src)]},
                                      !.over = @ \/ Exists(a.files, p)],
                            "exported")

\* self._db[i] for i in range(len(self._db)): the tracks in catalog order
RECURSIVE InOrder(_)
InOrder(trs) ==
    IF trs = {} THEN << >>
    ELSE LET first == CHOOSE tr \in trs : \A x \in trs : tr.id <= x.id
         IN  <<first>> \o InOrder(trs \ {first})

\* The loop: it stops where an exception escapes it.
RECURSIVE ExportLoop(_, _, _, _)
ExportLoop(a, trs, outs, i) ==
    IF i > Len(trs) \/ a.escaped THEN a
    ELSE ExportLoop(ExportOne(a, trs[i], outs[i]), trs, outs, i + 1)

\* No export has handled every track of a catalog yet
NotSeen == << >>

\* export_tracks: _require_connected, os.makedirs(destination_path), the loop
\* over the tracks, the counts.
ExportTracks(t, OutcomeSet) ==
    /\ Inside(t)
    /\ IF ~RequireConnected(db)
       THEN /\ last' = Result("export_tracks", "NotConnected", "", << >>)
            /\ UNCHANGED <<destDir, dest>>
       ELSE \E outs \in [1..Cardinality(tracks) -> OutcomeSet] :
            \E a \in {ExportLoop([files |-> dest.files, cls |-> << >>, errors |-> 0,
                                  escaped |-> FALSE, over |-> FALSE],
                                 InOrder(tracks), outs, 1)} :
               /\ Cardinality(a.files) <= MaxFiles
               /\ destDir' = TRUE
               /\ dest' = [files |-> a.files,
                           seen |-> IF ~a.escaped /\ a.errors = 0
                                    THEN <<tracks>> ELSE NotSeen]
               /\ last' = [Result("export_tracks",
                                  IF a.escaped THEN "Exception" ELSE "none", "", <<"len">>)
                              EXCEPT !.cls = a.cls,
                                     !.n = IF a.errors < MaxErrorDetails
                                           THEN a.errors ELSE MaxErrorDetails,
                                     !.before = tracks,
                                     !.over = a.over,
                                     !.rerun = (dest.seen = <<tracks>>),
                                     !.raised = IF \A i \in DOMAIN outs : outs[i] = "ok"
                                                THEN "" ELSE "export",
                                     !.same = (destDir /\ a.files = dest.files)]
    /\ Touch(t)
    /\ Release(t)
    /\ UNCHANGED <<db, mountpoint, tracks, playlists, tempFiles, gpod, cacheVars>>

----------------------------------------------------------------------------
(* app.py: the export request reads ipod.connected before it starts its task *)

\* ipod_export: "if not ipod.connected" (the property reads self._db, no lock)
ExportRequest(t) ==
    /\ pc[t] = "idle"
    /\ access' = [by |-> t, locked |-> (lock = t)]
    /\ last' = Result("ipod_export", IF db = "None" THEN "NoIPod" ELSE "none", db, << >>)
    /\ UNCHANGED <<db, mountpoint, lock, pc, tracks, playlists, tempFiles,
                   destDir, dest, gpod, cacheVars>>

----------------------------------------------------------------------------
(* The library files, the scanner and the Cache Store *)

\* Modification times are counted in ticks of 0.005 s; the scan takes a cached
\* and a current mtime for the same below 0.01 s.
Epsilon == 2

MaxMtime == 2
MaxRowId == 4
MaxWalkId == 11

\* if progress_callback and scanned % 10 == 0
Cadence == 10

\* More files of the music root, each with identifying metadata
ManyPaths == {"t1.mp3", "t2.mp3", "t3.mp3", "t4.mp3", "t5.mp3", "t6.mp3", "t7.mp3", "t8.mp3"}

SmallLibrary == {"a.mp3", "b.mp3", "x.mp3", "p.mp3", "v.m4v"}

\* Files a browser uploads, by file name: ua.mp3 has the bytes of a.mp3, w.mp3
\* has identifying metadata, y.mp3 and y2.mp3 have the same bytes and cannot be
\* parsed, z.txt is no audio file
UploadNames == {"ua.mp3", "w.mp3", "y.mp3", "y2.mp3", "z.txt"}

\* _unique_path(dest_dir / filename): the path itself, then "stem (1).ext"
Candidates(name) ==
    CASE name = "y.mp3"  -> <<"y.mp3", "y (1).mp3">>
      [] name = "y2.mp3" -> <<"y2.mp3", "y2 (1).mp3">>
      [] OTHER           -> <<name>>

\* The places under <library>/Uploads an uploaded file can be moved to
UploadPaths ==
    {"ua.mp3", "w.mp3", "y.mp3", "y2.mp3", "y (1).mp3", "y2 (1).mp3"}

\* Episodes under the podcast root, and one directly under a root "/"
PodcastPaths ==
    {"pods/show/e1.mp3", "pods/show/e2.mp3", "pods/feed/e3.mp3", "pods/feed/e4.mp3",
     "/e5.mp3"}

LibraryPaths == SmallLibrary \cup ManyPaths \cup UploadPaths \cup PodcastPaths

\* os.walk of a root finds its files in this order
WalkOrder ==
    <<"a.mp3", "b.mp3", "x.mp3", "t1.mp3", "t2.mp3", "t3.mp3", "t4.mp3", "t5.mp3",
      "t6.mp3", "t7.mp3", "t8.mp3", "p.mp3", "v.m4v",
      "ua.mp3", "w.mp3", "y.mp3", "y2.mp3", "y (1).mp3", "y2 (1).mp3",
      "pods/show/e1.mp3", "pods/show/e2.mp3", "pods/feed/e3.mp3", "pods/feed/e4.mp3",
      "/e5.mp3">>

RootOf(path) ==
    CASE path \in {"p.mp3"} \cup PodcastPaths -> "podcasts"
      [] path = "v.m4v" -> "videos"
      [] OTHER          -> "music"

\* What _extract_metadata makes of the file: None ("corrupt"), a record with an
\* identifying field (artist, album, album_artist, genre, year, track_nr) or a
\* record with none ("bare": title from the file name, duration, bitrate).
Tags(path) ==
    CASE path \in {"x.mp3", "y.mp3", "y2.mp3", "y (1).mp3", "y2 (1).mp3"} -> "corrupt"
      [] path \in {"b.mp3", "p.mp3"} -> "bare"
      [] OTHER -> "identified"

\* The album tag _extract_metadata reads (str(frame.text[0]) of TALB, as it is
\* in the file), "" where the file has none
AlbumTag(path) ==
    CASE path = "pods/show/e1.mp3" -> "Show"
      [] path = "pods/show/e2.mp3" -> " Show "
      [] path = "pods/feed/e4.mp3" -> "  "
      [] path \in {"a.mp3", "c.flac"} -> "Album"
      [] OTHER -> ""

\* Path(fname).suffix.lower() in VIDEO_EXTENSIONS; every other library file has
\* an extension of SUPPORTED_EXTENSIONS.
IsVideoExt(path) == path \in {"v.m4v"}

\* scan_directory, first pass: the files under the root whose extension is in
\* the set of the scan (VIDEO_EXTENSIONS if is_video else SUPPORTED_EXTENSIONS)
AudioFiles(d, root, is_video) ==
    SelectSeq(WalkOrder,
              LAMBDA f : d[f].present /\ RootOf(f) = root /\ (IsVideoExt(f) <=> is_video))

Abs(x) == IF x < 0 THEN 0 - x ELSE x

RowOf(rs, path) == CHOOSE r \in rs : r.file_path = path

\* get_cached_mtime(path) is not None
Cached(rs, path) == \E r \in rs : r.file_path = path

UnchangedNever(rs, path, mtime) == FALSE

\* cached_mtime is not None and abs(cached_mtime - mtime) < 0.01
Unchanged(rs, path, mtime) ==
    Cached(rs, path) /\ Abs(RowOf(rs, path).file_mtime - mtime) < Epsilon

\* The columns upsert_track writes (ident stands for title ... bitrate: whether
\* one of the identifying fields is set; artwork columns are left out).
Columns == {"file_path", "file_mtime", "sha1_hash", "ident", "is_podcast", "album"}

UpsertTrackAppend(c, track_data) ==
    LET row == [k \in Columns \cup {"id"} |->
                  IF k = "id" THEN c.seq + 1 ELSE track_data[k]]
    IN  [c EXCEPT !.rows = @ \cup {row},
                  !.seq = @ + 1,
                  !.upserted = @ \cup {track_data.file_path}]

\* upsert_track: INSERT OR REPLACE deletes the row that has the file_path and
\* inserts a row with the next AUTOINCREMENT id; keys of track_data that are no
\* column of the statement are not stored.
UpsertTrack(c, track_data) ==
    LET row == [k \in Columns \cup {"id"} |->
                  IF k = "id" THEN c.seq + 1 ELSE track_data[k]]
    IN  [c EXCEPT !.rows = {r \in @ : r.file_path # track_data.file_path} \cup {row},
                  !.seq = @ + 1,
                  !.upserted = @ \cup {track_data.file_path}]

\* process_single_file(path, is_podcast, is_video), with the setting read by
\* models.get_setting('allow_files_without_metadata')
\* o is what goes wrong for this file: nothing ("ok"), os.stat raises OSError
\* ("stat_fail"), sha1_hash raises OSError ("hash_fail"), or
\* artwork.extract_and_cache raises ("art_fail": folder.jpg cannot be read, the
\* artwork cache cannot be written), which no handler catches.
ProcessSingleFile(c, path, mtime, is_podcast, is_video, setting, o) ==
    LET seen == [c EXCEPT !.extracted = @ \cup {path}]
        has_metadata == Tags(path) = "identified"
        track_data == [file_path |-> path, file_mtime |-> mtime,
                       sha1_hash |-> ContentFp(path), ident |-> has_metadata,
                       album |-> AlbumTag(path),
                       is_podcast |-> is_podcast, is_video |-> is_video]
    IN  IF o = "stat_fail" THEN c
        ELSE IF Tags(path) = "corrupt" THEN seen
        ELSE IF ~has_metadata /\ ~is_podcast /\ setting # "1" THEN seen
        ELSE IF o = "hash_fail" THEN seen
        ELSE IF o = "art_fail" THEN [seen EXCEPT !.escaped = TRUE]
        ELSE UpsertTrack(seen, track_data)

FileOutcomes == {"ok", "stat_fail", "hash_fail", "art_fail"}

\* Nothing goes wrong, or one thing of OutcomeSet goes wrong for one of n
\* files: the first one, or the one at the first position that is reported
OneFailure(n, OutcomeSet) ==
    {[i \in 1..n |-> IF i = j THEN o ELSE "ok"] :
        j \in {0, 1, Cadence} \cap (0..n), o \in OutcomeSet}

\* progress_callback(scanned, total, ..) of the file at position scanned
Report(c, scanned, total) ==
    IF scanned % Cadence = 0
    THEN [c EXCEPT !.calls = Append(@, [scanned |-> scanned, total |-> total,
                                        what |-> "file"])]
    ELSE c

\* "for file_path in audio_files": skip the unchanged, process the others
\* (a file whose os.stat fails is passed over without a report); the loop ends
\* where an exception escapes it
RECURSIVE ScanLoop(_, _, _, _, _, _, _, _)
ScanLoop(c, files, d, is_podcast, is_video, setting, outs, i) ==
    IF i > Len(files) \/ c.escaped THEN c
    ELSE LET f == files[i]
             done == IF Unchanged(c.rows, f, d[f].mtime) THEN c
                     ELSE ProcessSingleFile(c, f, d[f].mtime, is_podcast, is_video,
                                            setting, outs[i])
             next == IF outs[i] = "stat_fail" THEN c
                     ELSE IF done.escaped THEN done
                     ELSE Report(done, i, Len(files))
         IN  ScanLoop(next, files, d, is_podcast, is_video, setting, outs, i + 1)

RemoveMissingFilesNothing(rs, d) == rs

\* models.remove_missing_files: every row of the table is tested
RemoveMissingFiles(rs, d) == {r \in rs : d[r.file_path].present}

\* models.remove_files_without_metadata_if_disabled: with the setting disabled,
\* the rows that have no identifying metadata are purged.
RemoveFilesWithoutMetadataIfDisabled(rs, setting) ==
    IF setting = "1" THEN rs ELSE {r \in rs : r.ident}

PostWalkCleanupMissingOnly(rs, d, setting) == RemoveMissingFiles(rs, d)

\* The two cleanups after the walk
PostWalkCleanup(rs, d, setting) ==
    RemoveFilesWithoutMetadataIfDisabled(RemoveMissingFiles(rs, d), setting)

FinalCallsNoDone(calls, total, removed_count) == calls

\* The callbacks after the walk: "Removed n files without metadata" if the
\* purge removed rows, then "Done"
FinalCalls(calls, total, removed_count) ==
    (IF removed_count > 0
     THEN Append(calls, [scanned |-> total, total |-> total, what |-> "removed"])
     ELSE calls) \o <<[scanned |-> total, total |-> total, what |-> "done"]>>

NoScan ==
    [op |-> "", root |-> "", is_podcast |-> FALSE, is_video |-> FALSE, n |-> 0,
     before |-> {}, extracted |-> {}, upserted |-> {}, removed |-> {},
     again |-> FALSE, touched |-> {}, dirty |-> FALSE,
     err |-> "none", calls |-> << >>, outs |-> << >>]

\* Nothing has changed since the scan of (root, is_podcast, is_video)
Clean(root, is_podcast, is_video) ==
    [root |-> root, is_podcast |-> is_podcast, is_video |-> is_video,
     touched |-> {}, dirty |-> FALSE]

\* The scans the application starts (library_scan, library_scan_podcasts) and
\* the video scan
ScanKinds ==
    {[root |-> "music", is_podcast |-> FALSE, is_video |-> FALSE],
     [root |-> "podcasts", is_podcast |-> TRUE, is_video |-> FALSE],
     [root |-> "videos", is_podcast |-> FALSE, is_video |-> TRUE]}

\* scan_directory(root, progress_callback, is_podcast=.., is_video=..): the
\* walk, then the two cleanups and the final callbacks. An exception that
\* escapes the walk ends the scan there: the rows written so far stay.
ScanDirectory(KindSet, OutcomeSet, MaxId) ==
    \E k \in KindSet :
       LET files == AudioFiles(disk, k.root, k.is_video)
           start == [rows |-> rows, seq |-> seq, extracted |-> {}, upserted |-> {},
                     calls |-> << >>, escaped |-> FALSE]
       IN  \E outs \in OneFailure(Len(files), OutcomeSet) :
           \E walked \in {ScanLoop(start, files, disk, k.is_podcast, k.is_video, allow,
                                   outs, 1)} :
           LET missing == walked.rows \ RemoveMissingFiles(walked.rows, disk)
               kept == IF walked.escaped THEN walked.rows
                       ELSE PostWalkCleanup(walked.rows, disk, allow)
               removed_count == Cardinality((walked.rows \ kept) \ missing)
           IN  /\ walked.seq <= MaxId
               /\ rows' = kept
               /\ seq' = walked.seq
               /\ scan' = [op |-> "scan_directory", root |-> k.root,
                           is_podcast |-> k.is_podcast, is_video |-> k.is_video,
                           n |-> Len(files), before |-> rows,
                           extracted |-> walked.extracted, upserted |-> walked.upserted,
                           removed |-> walked.rows \ kept,
                           again |-> (/\ since.root = k.root
                                      /\ since.is_podcast = k.is_podcast
                                      /\ since.is_video = k.is_video),
                           touched |-> since.touched, dirty |-> since.dirty,
                           err |-> IF walked.escaped THEN "Exception" ELSE "none",
                           calls |-> IF walked.escaped THEN walked.calls
                                     ELSE FinalCalls(walked.calls, Len(files),
                                                     removed_count),
                           outs |-> outs]
               /\ since' = [Clean(k.root, k.is_podcast, k.is_video)
                               EXCEPT !.dirty = walked.escaped]
               /\ UNCHANGED <<disk, allow>>
               /\ UNCHANGED <<db, mountpoint, lock, pc, tracks, playlists, tempFiles,
                              destDir, dest, gpod, access, last, jobs, store>>

\* process_single_file called on its own: by a scan that runs at the same
\* time as others and made its skip test earlier, or by the upload
ProcessCall(PathSet) ==
    \E f \in PathSet, is_podcast \in BOOLEAN :
    \E c \in {ProcessSingleFile([rows |-> rows, seq |-> seq, extracted |-> {},
                                 upserted |-> {}, calls |-> << >>, escaped |-> FALSE],
                                f, disk[f].mtime, is_podcast, IsVideoExt(f), allow, "ok")} :
       /\ disk[f].present
       /\ c.seq <= MaxRowId
       /\ rows' = c.rows
       /\ seq' = c.seq
       /\ scan' = [NoScan EXCEPT !.op = "process_single_file", !.before = rows,
                                 !.extracted = c.extracted, !.upserted = c.upserted]
       /\ since' = [since EXCEPT !.dirty = TRUE]
       /\ UNCHANGED <<disk, allow>>
       /\ UNCHANGED <<db, mountpoint, lock, pc, tracks, playlists, tempFiles,
                      destDir, dest, gpod, access, last, jobs, store>>

\* The environment: a library file is written or touched, which gives it a
\* later modification time
TouchFile(PathSet) ==
    \E f \in PathSet, m \in 0..MaxMtime :
       /\ disk[f].present
       /\ m > disk[f].mtime
       /\ disk' = [disk EXCEPT ![f].mtime = m]
       /\ since' = [since EXCEPT !.touched = @ \cup {f}]
       /\ scan' = NoScan
       /\ UNCHANGED <<rows, seq, allow>>
       /\ UNCHANGED <<db, mountpoint, lock, pc, tracks, playlists, tempFiles,
                      destDir, dest, gpod, access, last, jobs, store>>

\* The environment: a library file is deleted
DeleteFile(PathSet) ==
    \E f \in PathSet :
       /\ disk[f].present
       /\ disk' = [disk EXCEPT ![f].present = FALSE]
       /\ since' = [since EXCEPT !.dirty = TRUE]
       /\ scan' = NoScan
       /\ UNCHANGED <<rows, seq, allow>>
       /\ UNCHANGED <<db, mountpoint, lock, pc, tracks, playlists, tempFiles,
                      destDir, dest, gpod, access, last, jobs, store>>

\* models.set_setting('allow_files_without_metadata', v)
SetAllow ==
    \E v \in {"0", "1"} :
       /\ v # allow
       /\ allow' = v
       /\ since' = [since EXCEPT !.dirty = TRUE]
       /\ scan' = NoScan
       /\ UNCHANGED <<rows, seq, disk>>
       /\ UNCHANGED <<db, mountpoint, lock, pc, tracks, playlists, tempFiles,
                      destDir, dest, gpod, access, last, jobs, store>>

----------------------------------------------------------------------------
(* app.py: the add request fetches the rows of the ids it was given *)

\* d.get(key): None, which counts as false, when the dict has no such key
DictGet(d, key) == IF key \in DOMAIN d THEN d[key] ELSE FALSE

\* The row as add_tracks reads it: lib_track['file_path'],
\* lib_track.get('sha1_hash', ''), lib_track.get('is_video')
AsCandidate(d) ==
    [file_path |-> d.file_path, sha1_hash |-> d.sha1_hash,
     is_video |-> DictGet(d, "is_video")]

\* get_tracks_by_ids: SELECT * ... WHERE id IN (ids), a dict per row, in the
\* order of the ids of the rows
RECURSIVE GetTracksByIds(_, _)
GetTracksByIds(rs, ids) ==
    LET hit == {r \in rs : r.id \in ids}
    IN  IF hit = {} THEN << >>
        ELSE LET first == CHOOSE r \in hit : \A x \in hit : r.id <= x.id
             IN  <<first>> \o GetTracksByIds(rs \ {first}, ids)

\* The batches ipod_add_tracks can hand to add_tracks: one per non-empty set
\* of ids that matches a row
FetchedBatches(rs) ==
    {[i \in 1..Len(GetTracksByIds(rs, ids)) |-> AsCandidate(GetTracksByIds(rs, ids)[i])] :
        ids \in (SUBSET {r.id : r \in rs}) \ {{}}}

\* ipod_add_tracks, from the fetch on: ipod.add_tracks(library_tracks, playlist_id)
IpodAddTracks(t) == AddTracks(t, FetchedBatches(rows), {0})

----------------------------------------------------------------------------
(* duplicate_detector.py: sha1_hash *)

\* hash_len = 4 * 4096
HashLen == 16384

\* Files to fingerprint. The size is q * 2^32 + r bytes with r < 2^32; head is
\* what the first HashLen bytes are, tail what the bytes after them are
HashInputs ==
    [q : {0, 1}, r : {HashLen + 1, HashLen + 2}, head : {"h1", "h2"},
     tail : {"t1", "t2"}, readable : BOOLEAN]

\* struct.pack("<L", size): the four bytes of size, for 0 <= size < 2^32;
\* struct.error for every other size
Pack(size) ==
    IF size.q > 0 THEN [err |-> "struct.error", bytes |-> 0]
    ELSE [err |-> "none", bytes |-> size.r]

\* sha1_hash(filename): os.path.getsize and open raise OSError for a file that
\* cannot be read; the digest is SHA1 (taken as injective) of the packed size
\* and of f.read(hash_len)
Sha1Hash(file) ==
    LET packed == Pack([q |-> file.q, r |-> file.r])
    IN  IF ~file.readable THEN [err |-> "OSError", digest |-> << >>]
        ELSE IF packed.err # "none" THEN [err |-> packed.err, digest |-> << >>]
        ELSE [err |-> "none", digest |-> <<packed.bytes, file.head>>]

\* Two files are fingerprinted: outs holds the files, calls the results
Sha1HashFiles(FileSet) ==
    \E f, g \in FileSet :
       /\ scan' = [NoScan EXCEPT !.op = "sha1_hash", !.outs = <<f, g>>,
                                 !.calls = <<Sha1Hash(f), Sha1Hash(g)>>]
       /\ UNCHANGED <<rows, seq, disk, allow, since>>
       /\ UNCHANGED <<db, mountpoint, lock, pc, tracks, playlists, tempFiles,
                      destDir, dest, gpod, access, last, jobs, store>>

----------------------------------------------------------------------------
(* models.py: the podcast series *)

MaxEpisodes == 5

\* str.strip() of the album tags there are
Strip(album) ==
    CASE album = " Show " -> "Show"
      [] album = "  "     -> ""
      [] OTHER            -> album

\* os.path.basename(os.path.dirname(file_path))
FolderName(path) ==
    CASE path \in {"pods/show/e1.mp3", "pods/show/e2.mp3"} -> "show"
      [] path \in {"pods/feed/e3.mp3", "pods/feed/e4.mp3"} -> "feed"
      [] path = "/e5.mp3" -> ""
      [] path = "p.mp3"   -> "podcasts"
      [] OTHER            -> "music"

\* "if album and album.strip(): series_name = album.strip() else: series_name =
\* os.path.basename(parent_dir) or 'Unknown Podcast'", the same lines in
\* get_podcast_series_simple and in get_podcast_episodes
SeriesNameUnstripped(r) ==
    IF r.album # "" /\ Strip(r.album) # "" THEN r.album
    ELSE IF FolderName(r.file_path) # "" THEN FolderName(r.file_path)
    ELSE "Unknown Podcast"

SeriesName(r) ==
    IF r.album # "" /\ Strip(r.album) # "" THEN Strip(r.album)
    ELSE IF FolderName(r.file_path) # "" THEN FolderName(r.file_path)
    ELSE "Unknown Podcast"

\* The series names there can be, as sorted(.., key=series_name) orders them
SeriesOrder == <<" Show ", "Show", "Unknown Podcast", "feed", "podcasts", "show">>

\* "for row in rows": series_map[series_name]['episode_count'] += 1
RECURSIVE CountSeries(_, _)
CountSeries(rs, series_map) ==
    IF rs = {} THEN series_map
    ELSE LET row == CHOOSE r \in rs : TRUE
             series_name == SeriesName(row)
         IN  CountSeries(rs \ {row},
                         IF series_name \in DOMAIN series_map
                         THEN [series_map EXCEPT ![series_name] = @ + 1]
                         ELSE series_map @@ (series_name :> 1))

\* get_podcast_series_simple(): name and episode count of every series
GetPodcastSeriesSimple(rs) ==
    LET series_map == CountSeries({r \in rs : r.is_podcast}, [n \in {} |-> 0])
        names == SelectSeq(SeriesOrder, LAMBDA n : n \in DOMAIN series_map)
    IN  [i \in 1..Len(names) |->
            [series_name |-> names[i], episode_count |-> series_map[names[i]]]]

\* get_podcast_episodes(series_name), as the set of the rows it returns
GetPodcastEpisodes(rs, series_name) ==
    {r \in rs : r.is_podcast /\ SeriesName(r) = series_name}

\* GET /api/podcasts/series
PodcastSeries ==
    /\ scan' = [NoScan EXCEPT !.op = "get_podcast_series_simple",
                              !.calls = GetPodcastSeriesSimple(rows)]
    /\ UNCHANGED <<rows, seq, disk, allow, since>>
    /\ UNCHANGED <<db, mountpoint, lock, pc, tracks, playlists, tempFiles,
                   destDir, dest, gpod, access, last, jobs, store>>

\* GET /api/podcasts/episodes?series=..: root holds the name asked for,
\* extracted the paths of the rows returned
PodcastEpisodes(NameSet) ==
    \E series_name \in NameSet :
       /\ scan' = [NoScan EXCEPT
                      !.op = "get_podcast_episodes", !.root = series_name,
                      !.extracted = {r.file_path : r \in GetPodcastEpisodes(rows, series_name)}]
       /\ UNCHANGED <<rows, seq, disk, allow, since>>
       /\ UNCHANGED <<db, mountpoint, lock, pc, tracks, playlists, tempFiles,
                      destDir, dest, gpod, access, last, jobs, store>>

----------------------------------------------------------------------------
(* models.py: init_db and the settings table *)

\* library.db before init_db has run on it: no file yet, or the file of an
\* earlier version (library_tracks without is_podcast, no settings table, the
\* library path in scan_state: no row, an empty path or a path)
RawStores ==
    {[schema |-> "none", legacy |-> "None", library_path |-> "absent", inited |-> FALSE]}
    \cup {[schema |-> "old", legacy |-> l, library_path |-> "absent", inited |-> FALSE] :
             l \in {"None", "", "/old"}}

\* init_db: executescript(SCHEMA) creates what does not exist, the ALTER TABLE
\* of MIGRATIONS adds the column or fails with OperationalError, which is
\* passed over; then scan_state.library_path moves into settings unless a row
\* with the key music_library_path exists (whatever its value)
InitDbBodyOverwrite(s) ==
    [s EXCEPT !.schema = "current",
              !.library_path = IF s.legacy \notin {"None", ""} THEN s.legacy ELSE @,
              !.inited = TRUE]

InitDbBody(s) ==
    [s EXCEPT !.schema = "current",
              !.library_path = IF s.legacy \notin {"None", ""} /\ @ = "absent"
                               THEN s.legacy ELSE @,
              !.inited = TRUE]

InitDb ==
    /\ store' = InitDbBody(store)
    /\ scan' = [NoScan EXCEPT !.op = "init_db", !.again = store.inited,
                              !.before = rows]
    /\ UNCHANGED <<rows, seq, disk, allow, since>>
    /\ UNCHANGED <<db, mountpoint, lock, pc, tracks, playlists, tempFiles,
                   destDir, dest, gpod, access, last, jobs>>

\* set_setting('music_library_path', v): str(value) if value else None
SetLibraryPath(ValueSet) ==
    \E v \in ValueSet :
       /\ store.inited
       /\ store' = [store EXCEPT !.library_path = IF v = "" THEN "null" ELSE v]
       /\ scan' = NoScan
       /\ UNCHANGED <<rows, seq, disk, allow, since>>
       /\ UNCHANGED <<db, mountpoint, lock, pc, tracks, playlists, tempFiles,
                      destDir, dest, gpod, access, last, jobs>>

----------------------------------------------------------------------------
(* app.py: library_upload *)

MaxUpload == 2

\* models.check_duplicate_hash(file_hash): a row of the cache with that
\* fingerprint, whatever its path, or None
CheckDuplicateHash(rs, file_hash) == \E r \in rs : r.sha1_hash = file_hash

\* _unique_path(dest_dir / filename); "" where the numbered names run out
UniquePath(d, name) ==
    LET free == SelectSeq(Candidates(name), LAMBDA p : ~d[p].present)
    IN  IF free = << >> THEN "" ELSE Head(free)

\* What can go wrong for one uploaded file: f.save raises ("save_fail", the
\* file of mkstemp stays), sha1_hash raises OSError ("hash_fail"), shutil.move
\* raises ("move_fail")
UploadOutcomes == {"ok", "save_fail", "hash_fail", "move_fail"}

\* One round of "for f in files": what the file is reported as, what became
\* of its temporary file and where it was moved to
UploadOne(c, name, o, setting) ==
    LET dest_path == UniquePath(c.disk, name)
        note(x, what, tmp, path) ==
            [x EXCEPT !.calls = Append(@, [name |-> name, what |-> what,
                                           tmp |-> tmp, dest |-> path])]
    IN  IF name = "z.txt" THEN note(c, "error", "none", "")
        ELSE IF o = "save_fail" THEN note(c, "error", "left", "")
        ELSE IF o = "hash_fail" THEN note(c, "error", "deleted", "")
        ELSE IF CheckDuplicateHash(c.rows, ContentFp(name))
             THEN note(c, "duplicate", "deleted", "")
        ELSE IF dest_path = "" THEN note(c, "unnamed", "deleted", "")
        ELSE IF o = "move_fail" THEN note(c, "error", "deleted", "")
        ELSE LET moved == [c EXCEPT !.disk[dest_path] = [present |-> TRUE, mtime |-> 0]]
                 done == ProcessSingleFile(moved, dest_path, 0, FALSE, FALSE, setting, "ok")
             IN  note(done, IF dest_path \in done.upserted THEN "added" ELSE "error",
                      "moved", dest_path)

RECURSIVE UploadLoop(_, _, _, _, _)
UploadLoop(c, files, outs, setting, i) ==
    IF i > Len(files) THEN c
    ELSE UploadLoop(UploadOne(c, files[i], outs[i], setting), files, outs, setting, i + 1)

\* POST /api/library/upload with the files of one request; it reads no state
\* of the device session
LibraryUpload(NameSet, OutcomeSet) ==
    \E n \in 1..MaxUpload :
      \E files \in [1..n -> NameSet], outs \in OneFailure(n, OutcomeSet) :
        \E done \in {UploadLoop([rows |-> rows, seq |-> seq, disk |-> disk,
                                  extracted |-> {}, upserted |-> {},
                                  escaped |-> FALSE, calls |-> << >>],
                                 files, outs, allow, 1)} :
           /\ done.seq <= MaxRowId
           /\ \A i \in 1..n : done.calls[i].what # "unnamed"
           /\ rows' = done.rows
           /\ seq' = done.seq
           /\ disk' = done.disk
           /\ scan' = [NoScan EXCEPT !.op = "library_upload", !.n = n,
                                     !.before = rows,
                                     !.extracted = done.extracted,
                                     !.upserted = done.upserted,
                                     !.calls = done.calls, !.outs = outs]
           /\ since' = [since EXCEPT !.dirty = TRUE]
           /\ UNCHANGED allow
           /\ UNCHANGED <<db, mountpoint, lock, pc, tracks, playlists, tempFiles,
                          destDir, dest, gpod, access, last, jobs, store>>

----------------------------------------------------------------------------
(* app.py: the requests that start a background task *)

\* A worker that runs no task
NoJob == [kind |-> "none", st |-> "free", events |-> << >>]

\* library_scan, library_scan_podcasts, ipod_sync, ipod_export
JobKinds == {"scan", "podcast_scan", "sync", "export"}

ScanKindOf(kind) ==
    IF kind = "podcast_scan"
    THEN [root |-> "podcasts", is_podcast |-> TRUE, is_video |-> FALSE]
    ELSE [root |-> "music", is_podcast |-> FALSE, is_video |-> FALSE]

\* The request handler: it checks what it checks (ipod_export: ipod.connected;
\* the scan requests: the configured path is a directory, which it is here),
\* hands the task to socketio.start_background_task and answers at once.
StartJob(KindSet) ==
    \E kind \in KindSet, j \in Threads :
       /\ jobs[j].st \in {"free", "finished"}
       /\ pc[j] = "idle"
       /\ kind = "export" => db # "None"
       /\ jobs' = [jobs EXCEPT ![j] = [kind |-> kind, st |-> "accepted", events |-> << >>]]
       /\ UNCHANGED <<db, mountpoint, lock, pc, tracks, playlists, tempFiles, destDir,
                      dest, gpod, access, last, rows, seq, disk, allow, scan, since,
                   store>>

\* The task begins to run on its thread
JobBegin(j) ==
    /\ jobs[j].st = "accepted"
    /\ jobs' = [jobs EXCEPT ![j].st = "running"]
    /\ UNCHANGED <<db, mountpoint, lock, pc, tracks, playlists, tempFiles, destDir,
                   dest, gpod, access, last, rows, seq, disk, allow, scan, since,
                   store>>

\* The exceptions of the session that are IPodError
IsIPodError(err) ==
    err \in {"NotConnected", "ReopenFailed", "NotFound", "MasterPlaylist", "Unsupported",
             "GpodMissing"}

\* What the task emits when its operation has returned or raised: _scan and
\* _export catch Exception, _sync catches IPodError only
Emitted(kind, err) ==
    IF err = "none" THEN <<"complete">>
    ELSE IF kind = "sync" /\ ~IsIPodError(err) THEN << >>
    ELSE <<"error">>

\* The operation of the task of worker j has ended and its outcome is in last
\* (session operations) or in scan (scans)
SessionJobDone(j) ==
    /\ jobs[j].kind \in {"sync", "export"}
    /\ pc[j] = "idle"
    /\ access.by = j
    /\ last.op = (IF jobs[j].kind = "sync" THEN "sync" ELSE "export_tracks")

ScanJobDone(j) ==
    /\ jobs[j].kind \in {"scan", "podcast_scan"}
    /\ scan.op = "scan_directory"
    /\ scan.is_podcast = ScanKindOf(jobs[j].kind).is_podcast

\* No outcome waits for its task to take it
NothingPending == last.op \notin {"sync", "export_tracks"} /\ scan.op # "scan_directory"

\* The end of the task: the try block of _scan, _sync, _export is left
JobEnd(j) ==
    /\ jobs[j].st = "running"
    /\ SessionJobDone(j) \/ ScanJobDone(j)
    /\ jobs' = [jobs EXCEPT ![j].st = "finished",
                            ![j].events = Emitted(jobs[j].kind,
                                                  IF SessionJobDone(j) THEN last.err
                                                  ELSE scan.err)]
    /\ last' = NoResult
    /\ scan' = NoScan
    /\ UNCHANGED <<db, mountpoint, lock, pc, tracks, playlists, tempFiles, destDir,
                   dest, gpod, access, rows, seq, disk, allow, since, store>>

\* Worker j runs a task of this kind and has not got its outcome yet
Runs(j, kinds) == jobs[j].st = "running" /\ jobs[j].kind \in kinds /\ NothingPending

----------------------------------------------------------------------------
(* The specification *)

\* A device that already holds a.mp3, transferred and fingerprinted
OldTrack == [id |-> 1, hash |-> 1, transferred |-> TRUE, src |-> LibFile("a.mp3"),
             reported |-> "added"]

InitSession(TrackSets, GpodSet) ==
    /\ db = "None"
    /\ mountpoint = "None"
    /\ lock = 0
    /\ pc = [t \in Threads |-> "idle"]
    /\ tracks \in TrackSets
    /\ playlists = (1 :> [name |-> "iPod", master |-> TRUE, members |-> TrackIds(tracks)])
                   @@ (2 :> [name |-> "Mix", master |-> FALSE, members |-> {}])
    /\ tempFiles = {}
    /\ destDir = FALSE
    /\ dest = [files |-> {}, seen |-> NotSeen]
    /\ gpod \in GpodSet
    /\ access = [by |-> 0, locked |-> TRUE]
    /\ last = NoResult

\* An empty cache, the files of PathSet on disk and no scan made yet
InitCache(PathSet, SettingSet) ==
    /\ rows = {}
    /\ seq = 0
    /\ disk = [f \in LibraryPaths |-> [present |-> f \in PathSet, mtime |-> 0]]
    /\ allow \in SettingSet
    /\ scan = NoScan
    /\ since = Clean("", FALSE, FALSE)
    /\ jobs = [j \in Threads |-> NoJob]

\* The same in a library.db that models.init_db() has set up (app.py runs it on
\* import), with the library path set
InitLibrary(PathSet, SettingSet) ==
    /\ InitCache(PathSet, SettingSet)
    /\ store = [schema |-> "current", legacy |-> "None", library_path |-> "/music",
                inited |-> TRUE]

Init ==
    /\ InitSession({{}, {OldTrack}}, {"module", "None"})
    /\ InitLibrary(SmallLibrary, {"0"})

\* Every operation, by any number of request threads. The lock discipline does
\* not depend on the arguments of the catalog operations: one batch, one id set.
OneBatch == {<<c>> : c \in {x \in Lib : x.file_path = "a.mp3"}}

OneIdSet == {{1}}

Step(t) ==
    \/ Acquire(t)
    \/ ConnectNoGpod(t)
    \/ Connect(t, Mounts)
    \/ Disconnect(t)
    \/ SyncFlush(t)
    \/ SyncReopen(t)
    \/ Read(t)
    \/ GetStatus(t)
    \/ GetPlaylistTracks(t)
    \/ CreatePlaylist(t)
    \/ RenamePlaylist(t)
    \/ DeletePlaylist(t)
    \/ AddTracks(t, OneBatch, {0})
    \/ AddToPlaylist(t, OneIdSet)
    \/ RemoveTracks(t, OneIdSet)
    \/ ExportTracks(t, {"ok"})
    \/ ExportRequest(t)

Next == \E t \in Threads : Step(t)

Spec == Init /\ [][Next]_vars

\* The session's life cycle and add_tracks with every batch, one caller at a time
NextAdd ==
    \/ Acquire(1)
    \/ ConnectNoGpod(1)
    \/ Connect(1, {"mpA", "bad"})
    \/ Disconnect(1)
    \/ SyncFlush(1)
    \/ SyncReopen(1)
    \/ AddTracks(1, Batches, Targets \ {1})

SpecAdd == Init /\ [][NextAdd]_vars

\* The catalog operations with every playlist id and every set of track ids,
\* one caller at a time, on a Connected session
SmallBatches == {<<c>> : c \in {x \in Lib : ~IsFlac(x.file_path)}}

InitLists ==
    /\ InitSession({{}, {OldTrack}}, {"module"})
    /\ InitLibrary(SmallLibrary, {"0"})

NextLists ==
    \/ Acquire(1)
    \/ Connect(1, {"mpA"})
    \/ GetPlaylistTracks(1)
    \/ CreatePlaylist(1)
    \/ RenamePlaylist(1)
    \/ DeletePlaylist(1)
    \/ AddToPlaylist(1, IdSets)
    \/ RemoveTracks(1, IdSets)
    \/ AddTracks(1, SmallBatches, Targets)

SpecLists == InitLists /\ [][NextLists]_vars

\* The scanner and the Cache Store: scans of the music and the podcast root,
\* with files touched and deleted and the setting changed between them
InitScan ==
    /\ InitSession({{}}, {"module"})
    /\ InitLibrary(SmallLibrary \ {"v.m4v"}, {"0", "1"})

NextScan ==
    \/ ScanDirectory({k \in ScanKinds : ~k.is_video}, {"ok"}, MaxRowId)
    \/ TouchFile({"a.mp3", "b.mp3"})
    \/ DeleteFile({"b.mp3"})
    \/ SetAllow

SpecScan == InitScan /\ [][NextScan]_vars

\* From the scan to the device: a music file and a video file are scanned and
\* added to the device through the add request
InitFetch ==
    /\ InitSession({{}}, {"module"})
    /\ InitLibrary({"a.mp3", "v.m4v"}, {"0"})

NextFetch ==
    \/ ScanDirectory({k \in ScanKinds : ~k.is_podcast}, {"ok"}, MaxRowId)
    \/ TouchFile({"v.m4v"})
    \/ Acquire(1)
    \/ Connect(1, {"mpA"})
    \/ Disconnect(1)
    \/ IpodAddTracks(1)

SpecFetch == InitFetch /\ [][NextFetch]_vars

\* Exports of a device catalog to one destination, with every failure of a
\* single track: catalogs with two tracks of the same artist, album and
\* sanitized title (other bytes, or the same file twice) and with a track
\* whose file is not on the device yet
DeviceTrack(i, path, copied) ==
    [id |-> i, hash |-> ContentFp(path), transferred |-> copied, src |-> LibFile(path),
     reported |-> "added"]

ExportCatalogs ==
    {{}, {OldTrack},
     {OldTrack, DeviceTrack(2, "n.mp3", TRUE)},
     {OldTrack, DeviceTrack(2, "a.mp3", TRUE)},
     {OldTrack, DeviceTrack(2, "c.flac", FALSE)}}

InitExport ==
    /\ InitSession(ExportCatalogs, {"module"})
    /\ InitLibrary(SmallLibrary, {"0"})

NextExport ==
    \/ Acquire(1)
    \/ Connect(1, {"mpA"})
    \/ Disconnect(1)
    \/ RemoveTracks(1, {{2}})
    \/ ExportTracks(1, ExportOutcomes)

SpecExport == InitExport /\ [][NextExport]_vars

\* Two callers of get_status, connect, disconnect, sync and add_tracks that may
\* wait for the lock. A thread inside a with block goes on (its collaborators
\* return), and the lock admits a caller that waits while it is free again and
\* again.
InitLive ==
    /\ InitSession({{}}, {"module"})
    /\ InitLibrary({"a.mp3"}, {"0"})

Held(t) ==
    \/ Connect(t, {"mpA", "bad"})
    \/ Disconnect(t)
    \/ SyncFlush(t)
    \/ SyncReopen(t)
    \/ GetStatus(t)
    \/ AddTracks(t, OneBatch, {0})

NextLive == \E t \in Threads : Call(t) \/ Acquire(t) \/ Held(t)

SpecLive ==
    /\ InitLive
    /\ [][NextLive]_vars
    /\ \A t \in Threads : WF_vars(Held(t)) /\ SF_vars(pc[t] = "waiting" /\ Acquire(t))

\* A device that holds the fingerprinted track of a.mp3: removals, additions of
\* the library rows without video and syncs, one caller at a time
InitReAdd ==
    /\ InitSession({{OldTrack}}, {"module"})
    /\ InitLibrary(SmallLibrary, {"0"})

NextReAdd ==
    \/ Acquire(1)
    \/ Connect(1, {"mpA"})
    \/ RemoveTracks(1, {{1}, {2}})
    \/ AddTracks(1, {b \in Batches : ~HasVideos(b)}, {0})
    \/ SyncFlush(1)
    \/ SyncReopen(1)

SpecReAdd == InitReAdd /\ [][NextReAdd]_vars

\* The Cache Store under every order of its writers: whole scans, single
\* process_single_file calls of other scans and of uploads, and the environment
NextStore ==
    \/ ScanDirectory({k \in ScanKinds : ~k.is_video}, {"ok"}, MaxRowId)
    \/ ProcessCall({"a.mp3", "b.mp3", "p.mp3"})
    \/ TouchFile({"a.mp3"})
    \/ DeleteFile({"b.mp3"})
    \/ SetAllow

SpecStore == InitScan /\ [][NextStore]_vars

\* The start of the application on a new or an old library.db, started again
\* any number of times, with scans and changes of the settings in between
InitStart ==
    /\ InitSession({{}}, {"module"})
    /\ InitCache({"a.mp3", "b.mp3"}, {"0"})
    /\ store \in RawStores

NextStart ==
    \/ InitDb
    \/ SetLibraryPath({"", "/new"})
    \/ store.inited /\ SetAllow
    \/ store.inited /\ ScanDirectory({k \in ScanKinds : k.root = "music"}, {"ok"}, MaxRowId)

SpecStart == InitStart /\ [][NextStart]_vars

\* The podcast listings over the cache of a scanned podcast root that holds
\* any of the episodes
InitSeries ==
    /\ InitSession({{}}, {"module"})
    /\ \E P \in SUBSET PodcastPaths : InitLibrary(P \cup {"a.mp3"}, {"0"})

NextSeries ==
    \/ ScanDirectory({k \in ScanKinds : ~k.is_video}, {"ok"}, MaxEpisodes + 1)
    \/ PodcastSeries
    \/ PodcastEpisodes({SeriesOrder[i] : i \in DOMAIN SeriesOrder})

SpecSeries == InitSeries /\ [][NextSeries]_vars

\* The fingerprints of pairs of files
InitHash ==
    /\ InitSession({{}}, {"module"})
    /\ InitLibrary({"a.mp3"}, {"0"})

NextHash == Sha1HashFiles(HashInputs)

SpecHash == InitHash /\ [][NextHash]_vars

\* Uploads into a library of one scanned or unscanned music file, with no
\* device connected
InitUpload ==
    /\ InitSession({{}}, {"None"})
    /\ InitLibrary({"a.mp3"}, {"0"})

NextUpload ==
    \/ LibraryUpload(UploadNames, UploadOutcomes)
    \/ ScanDirectory({k \in ScanKinds : k.root = "music"}, {"ok"}, MaxRowId)

SpecUpload == InitUpload /\ [][NextUpload]_vars

\* The background tasks on a connected session and a small library
InitJobs ==
    /\ db = "open"
    /\ mountpoint = "mpA"
    /\ lock = 0
    /\ pc = [t \in Threads |-> "idle"]
    /\ tracks = {OldTrack}
    /\ playlists = (1 :> [name |-> "iPod", master |-> TRUE, members |-> TrackIds(tracks)])
                   @@ (2 :> [name |-> "Mix", master |-> FALSE, members |-> {}])
    /\ tempFiles = {}
    /\ destDir = FALSE
    /\ dest = [files |-> {}, seen |-> NotSeen]
    /\ gpod = "module"
    /\ access = [by |-> 0, locked |-> TRUE]
    /\ last = NoResult
    /\ InitLibrary({"a.mp3"}, {"0"})

NextJobs ==
    \/ StartJob(JobKinds)
    \/ \E j \in Threads : JobBegin(j)
    \/ \E j \in Threads : Runs(j, {"sync", "export"}) /\ Acquire(j)
    \/ \E j \in Threads : Runs(j, {"sync"}) /\ SyncFlush(j)
    \/ \E j \in Threads : Runs(j, {"sync"}) /\ SyncReopen(j)
    \/ \E j \in Threads : Runs(j, {"export"}) /\ ExportTracks(j, {"ok", "mkdir_fail"})
    \/ \E j \in Threads :
          /\ Runs(j, {"scan", "podcast_scan"})
          /\ ScanDirectory({ScanKindOf(jobs[j].kind)}, {"ok", "art_fail"}, MaxRowId)
    \/ \E j \in Threads : JobEnd(j)

SpecJobs == InitJobs /\ [][NextJobs]_vars

\* Scans of a music root and of the podcast root with progress callback, where
\* for one file of a scan something may go wrong: a directory of three parsable
\* files and a corrupt one, the small library, and a directory of more than
\* Cadence files
WalkDirs ==
    {{"a.mp3", "t1.mp3", "t2.mp3", "x.mp3"},
     SmallLibrary \ {"v.m4v"},
     (SmallLibrary \cup ManyPaths) \ {"v.m4v"}}

InitWalk ==
    /\ InitSession({{}}, {"module"})
    /\ \E dir \in WalkDirs : InitLibrary(dir, {"0", "1"})

NextWalk ==
    \/ ScanDirectory({k \in ScanKinds : ~k.is_video}, FileOutcomes, MaxWalkId)

SpecWalk == InitWalk /\ [][NextWalk]_vars

----------------------------------------------------------------------------
(* Properties *)

\* Every step sets last: while last holds the result of an operation, the
\* state is the one the operation left.

\* This step ends an operation of the session (its with block is left) and the
\* operation is o.
Finished(o) ==
    /\ \E t \in Threads : pc[t] # "idle" /\ pc'[t] = "idle"
    /\ last'.op = o

\* C1: connect(m) while Connected fails with "already connected", for every m,
\* without a call on any catalog, and leaves the handle and the mountpoint of
\* the existing connection as they were.
C1_ConnectWhileConnected ==
    (last.op = "connect" /\ last.was # "None")
    => /\ last.err = "AlreadyConnected"
       /\ last.calls = << >>
       /\ db = last.was
       /\ mountpoint = last.wasMp

C1_Witness ==
    /\ last.op = "connect"
    /\ last.err = "AlreadyConnected"
    /\ db = "open"
    /\ last.arg \in ValidMounts
    /\ last.arg # mountpoint

\* C2: disconnect while Connected calls copy_delayed_files first and close after
\* it, ends Disconnected (handle and mountpoint cleared) whether or not one of
\* them raised, and reports an error exactly when one of them raised.
C2_DisconnectAlwaysReleases ==
    (last.op = "disconnect" /\ last.was # "None")
    => /\ db = "None"
       /\ mountpoint = "None"
       /\ last.calls \in {<<"copy_delayed_files">>, <<"copy_delayed_files", "close">>}
       /\ (last.raised = "") => (last.err = "none" /\ Len(last.calls) = 2)
       /\ (last.raised # "") => last.err = "DisconnectError"

C2_Witness ==
    /\ last.op = "disconnect"
    /\ last.raised = "copy_delayed_files"
    /\ last.err = "DisconnectError"
    /\ db = "None"
    /\ mountpoint = "None"

\* C3: when sync has finished, by returning or by raising, the session is
\* Disconnected or holds a freshly reopened handle: never a handle whose flush
\* was abandoned or on which close was called.
C3_SyncNeverLeavesStaleHandle ==
    (last.op = "sync" /\ last.err # "NotConnected") => db \in {"None", "open"}

\* C4: every operation but connect and get_status, called while Disconnected,
\* fails with "not connected", calls nothing on a catalog, creates no file and no
\* directory, and leaves the session Disconnected.
DeviceOps ==
    ReadOps \cup {"disconnect", "sync", "get_playlist_tracks", "create_playlist",
                  "rename_playlist", "delete_playlist", "add_tracks",
                  "add_to_playlist", "remove_tracks", "export_tracks"}

C4_NotConnectedIsInert ==
    (last.op \in DeviceOps /\ last.was = "None")
    => /\ last.err = "NotConnected"
       /\ last.calls = << >>
       /\ last.same
       /\ db = "None"
       /\ mountpoint = "None"

C4_Witness ==
    /\ last.op = "export_tracks"
    /\ last.err = "NotConnected"
    /\ ~destDir
    /\ db = "None"

\* C5: no two threads are inside an operation of the session at the same time,
\* and a thread inside one holds the lock.
C5_OneOperationAtATime ==
    /\ \A t1, t2 \in Threads : (pc[t1] # "idle" /\ pc[t2] # "idle") => t1 = t2
    /\ \A t \in Threads : pc[t] # "idle" => lock = t

C5_Witness ==
    /\ pc[1] = "reopen"
    /\ db = "closed"
    /\ lock = 1
    /\ pc[2] = "idle"

\* C6: every access to the handle field self._db is made by a thread that holds
\* the lock.
C6_HandleOnlyUnderLock == access.locked

\* C7: a candidate with a fingerprint whose file an earlier add_tracks call added
\* to the device (the track is still there) is reported as skipped-duplicate by
\* the next add_tracks call that returns a result.
C7_SecondAddSkips ==
    [][(Finished("add_tracks") /\ last'.err = "none")
        => \A i \in 1..Len(last'.batch) :
              LET c == last'.batch[i]
              IN  (/\ c.sha1_hash # 0
                   /\ \E tr \in tracks :
                         tr.reported = "added" /\ tr.src.of = c.file_path)
                  => last'.cls[i] = "skipped"]_vars

\* C8: in the result of one add_tracks call, of the candidates sharing one
\* fingerprint at most one is reported as added, and every candidate after it
\* with that fingerprint is reported as skipped-duplicate.
C8_BatchDuplicatesCaught ==
    last.op = "add_tracks"
    => \A i, j \in 1..Len(last.cls) :
          (/\ i < j
           /\ last.batch[i].sha1_hash # 0
           /\ last.batch[i].sha1_hash = last.batch[j].sha1_hash
           /\ last.cls[i] = "added")
          => last.cls[j] = "skipped"

C8_Witness ==
    /\ last.op = "add_tracks"
    /\ Len(last.batch) = 2
    /\ last.batch[1].sha1_hash = last.batch[2].sha1_hash
    /\ last.batch[1].sha1_hash # 0
    /\ last.cls = <<"added", "skipped">>

\* C9: every add_tracks call that passes the up-front checks returns a result
\* that classifies each candidate of the batch exactly once.
C9_EveryCandidateClassified ==
    (last.op = "add_tracks" /\ last.err \notin {"NotConnected", "Unsupported", "NotFound"})
    => /\ last.err = "none"
       /\ Len(last.cls) = Len(last.batch)

\* C10: a batch with a video on a device that does not answer "supports video"
\* is rejected as unsupported, with no track created, no playlist changed and
\* no transcode started.
C10_VideoBatchRejectedWhole ==
    (/\ last.op = "add_tracks"
     /\ last.was # "None"
     /\ HasVideos(last.batch)
     /\ last.video # "yes")
    => /\ last.err = "Unsupported"
       /\ last.cls = << >>
       /\ last.tc = 0
       /\ last.same

C10_Witness ==
    /\ last.op = "add_tracks"
    /\ last.err = "Unsupported"
    /\ last.video = "raise"
    /\ Len(last.batch) = 2
    /\ IsFlac(last.batch[1].file_path)
    /\ last.batch[2].is_video

\* C11: a file scanned with the video classification has its video flag in its
\* row and in the dict the batch fetch returns for it, and an add request for
\* it reaches add_tracks as a video candidate: on a Connected session it is
\* rejected as unsupported unless the device answers that it supports video.
C11_VideoFlagSurvivesCache ==
    /\ \A r \in rows : IsVideoExt(r.file_path) => DictGet(r, "is_video")
    /\ (/\ last.op = "add_tracks"
        /\ last.was # "None"
        /\ \E i \in 1..Len(last.batch) : IsVideoExt(last.batch[i].file_path))
       => /\ HasVideos(last.batch)
          /\ last.video # "yes" => last.err = "Unsupported"

\* C12: no add_tracks call reports a candidate whose fingerprint is absent or
\* empty as added (so two such candidates of one batch are never both added).
C12_MissingFingerprintNeverAdded ==
    last.op = "add_tracks"
    => \A i \in 1..Len(last.cls) :
          last.batch[i].sha1_hash = 0 => last.cls[i] # "added"

\* C13: when an add_tracks call has exited, by returning or by raising, no
\* temporary transcoded file exists (only add_tracks creates them, so each call
\* has deleted the ones it created).
C13_TempFilesDeletedOnExit ==
    last.op = "add_tracks" => tempFiles = {}

\* C14: rename_playlist and delete_playlist given the master playlist fail, both
\* with the error of the master playlist, and leave the catalog as it was, the
\* master playlist still there under its name; given another playlist that
\* exists they succeed: it has the new name, or it is gone.
C14_MasterPlaylistProtected ==
    (/\ last.op \in {"rename_playlist", "delete_playlist"}
     /\ last.was # "None"
     /\ last.err # "NotFound")
    => IF last.plKind = "master"
       THEN /\ last.err = "MasterPlaylist"
            /\ last.same
            /\ last.pl \in DOMAIN playlists
            /\ playlists[last.pl].master
            /\ playlists[last.pl].name = "iPod"
       ELSE /\ last.err = "none"
            /\ last.op = "rename_playlist"
                  => (last.pl \in DOMAIN playlists /\ playlists[last.pl].name = last.arg)
            /\ last.op = "delete_playlist" => last.pl \notin DOMAIN playlists

C14_Witness ==
    /\ last.op = "delete_playlist"
    /\ last.err = "MasterPlaylist"
    /\ last.plKind = "master"
    /\ \E i \in DOMAIN playlists : playlists[i].master /\ playlists[i].name = "iPod"

PlaylistOps ==
    {"get_playlist_tracks", "rename_playlist", "delete_playlist", "add_to_playlist",
     "add_tracks"}

\* C15 as claimed: every operation given a playlist id that no playlist has
\* fails with "not found" and leaves the catalog as it was.
C15_UnknownPlaylistNotFound ==
    (last.op \in PlaylistOps /\ last.was # "None" /\ last.plKind = "absent")
    => /\ last.err = "NotFound"
       /\ last.same

\* C15 amended: every operation given a playlist id that no playlist has fails
\* and leaves the catalog as it was (add_tracks creates no track); the error is
\* "not found", except that add_tracks rejects a batch with a video on a device
\* that does not answer "supports video" as unsupported, before it looks the
\* playlist up.
C15_UnknownPlaylistFails ==
    (last.op \in PlaylistOps /\ last.was # "None" /\ last.plKind = "absent")
    => /\ last.same
       /\ last.cls = << >>
       /\ last.err = IF /\ last.op = "add_tracks"
                        /\ HasVideos(last.batch)
                        /\ last.video # "yes"
                     THEN "Unsupported" ELSE "NotFound"

C15_Witness ==
    /\ last.op = "add_tracks"
    /\ last.plKind = "absent"
    /\ last.err = "NotFound"
    /\ HasVideos(last.batch)
    /\ last.video = "yes"
    /\ tracks = {}

\* C16: remove_tracks(ids) on a Connected session returns without an error,
\* leaves in the catalog exactly the tracks whose id was not requested, as they
\* were, and returns the number of tracks it removed, which is at most the
\* number of requested ids.
C16_RemoveExactlyRequested ==
    (last.op = "remove_tracks" /\ last.was # "None")
    => /\ last.err = "none"
       /\ tracks = {tr \in last.before : tr.id \notin last.arg}
       /\ last.n = Cardinality(last.before) - Cardinality(tracks)
       /\ last.n <= Cardinality(last.arg)

C16_Witness ==
    /\ last.op = "remove_tracks"
    /\ last.arg = {1, 3}
    /\ TrackIds(last.before) = {1, 2}
    /\ last.n = 1
    /\ TrackIds(tracks) = {2}

\* C17: export_tracks on a connected session never aborts because of one
\* track's failure (a missing source, a destination directory that cannot be
\* created, a failing size check or copy): it returns a result in which
\* exported + skipped + errors is the number of tracks of the catalog and
\* error_details holds at most ten entries.
ExportCount(c) == Cardinality({i \in DOMAIN last.cls : last.cls[i] = c})

C17_ExportNeverAborts ==
    (last.op = "export_tracks" /\ last.was # "None")
    => /\ last.err = "none"
       /\ ExportCount("exported") + ExportCount("skipped") + ExportCount("error")
             = Cardinality(last.before)
       /\ last.n <= MaxErrorDetails

\* C18: an export to the destination of the export before it, with the same
\* catalog, every track of which that export handled, and with nothing failing,
\* reports every track as skipped and writes no new file, whatever the
\* catalog: also when tracks share a sanitized name and differ in size.
C18_SecondExportAllSkipped ==
    (last.op = "export_tracks" /\ last.was # "None" /\ last.rerun /\ last.raised = "")
    => /\ last.err = "none"
       /\ ExportCount("skipped") = Cardinality(last.before)
       /\ last.same

\* C19: a scan of the directory the scan before it walked, with no file touched
\* or deleted and no setting changed in between, does not change the Cache
\* Store: no row is inserted, replaced or deleted and every row keeps its id,
\* whatever the files are (unparsable, without identifying metadata, podcast
\* files without identifying metadata).
C19_IdempotentScan ==
    (scan.op = "scan_directory" /\ scan.again /\ scan.touched = {} /\ ~scan.dirty)
    => /\ scan.upserted = {}
       /\ scan.removed = {}
       /\ rows = scan.before

\* The scan now in scan is a rescan of the directory of the cached file f, and f
\* is the only file touched, nothing else changed, since the scan before it.
RescanAfterTouch(f) ==
    /\ scan.op = "scan_directory"
    /\ scan.again
    /\ scan.touched = {f}
    /\ ~scan.dirty
    /\ RootOf(f) = scan.root
    /\ Cached(scan.before, f)

\* Every row of another file is in the store as it was: same id, same values.
OtherRowsUntouched(f) ==
    /\ \A r \in scan.before : r.file_path # f => r \in rows
    /\ \A r \in rows : r.file_path # f => r \in scan.before

\* The row of f was replaced: another id, the new modification time, the other
\* values as before.
RowReplaced(f) ==
    /\ Cached(rows, f)
    /\ LET old == RowOf(scan.before, f)
           new == RowOf(rows, f)
       IN  /\ new.id \notin {r.id : r \in scan.before}
           /\ new.file_mtime = disk[f].mtime
           /\ \A k \in Columns \ {"file_mtime"} : new[k] = old[k]

ScanCompleted == scan.op = "scan_directory" /\ scan.err = "none"

\* The scan now in scan started from an empty cache and nothing went wrong for
\* any of its files
FirstCleanScan ==
    /\ ScanCompleted
    /\ scan.before = {}
    /\ \A i \in DOMAIN scan.outs : scan.outs[i] = "ok"

\* The files scan_directory enumerated
Enumerated == {f \in LibraryPaths : disk[f].present /\ RootOf(f) = scan.root}

\* The last callback is the done signal, with scanned = total = the number of
\* enumerated files
EndsWithDone ==
    /\ scan.calls # << >>
    /\ scan.calls[Len(scan.calls)] = [scanned |-> scan.n, total |-> scan.n, what |-> "done"]
    /\ scan.n = Cardinality(Enumerated)

OneRowPerPath == \A r1, r2 \in rows : r1.file_path = r2.file_path => r1 = r2

C22_ItemFailuresAbsorbed ==
    scan.op = "scan_directory"
    => /\ scan.err = "none"
       /\ rows = PostWalkCleanup(rows, disk, allow)
       /\ EndsWithDone

\* C23: when a scan completes, no row of the Cache Store refers to a path that
\* does not exist on disk, under whichever root or classification the row was
\* cached.
C23_NoRowForVanishedFile ==
    ScanCompleted => \A r \in rows : disk[r.file_path].present

C23_Witness ==
    /\ ScanCompleted
    /\ scan.root = "podcasts"
    /\ ~disk["b.mp3"].present
    /\ \E r \in scan.removed : r.file_path = "b.mp3"
    /\ \E r \in rows : r.file_path = "a.mp3"

C25_OneRowPerPath ==
    /\ OneRowPerPath
    /\ \A f \in scan.upserted :
          Cardinality({r \in rows : r.file_path = f}) <= 1

C25_Witness ==
    /\ scan.op = "process_single_file"
    /\ scan.upserted = {"a.mp3"}
    /\ Cached(scan.before, "a.mp3")
    /\ Cached(rows, "a.mp3")
    /\ RowOf(scan.before, "a.mp3") \notin rows
    /\ Cardinality(rows) = Cardinality(scan.before)

\* C26: the id of a row is a stable surrogate key: a path that has a row
\* before a scan or an upsert and still has one after it has the same id, and
\* no id goes over to another path.
C26_StableId ==
    scan.op \in {"scan_directory", "process_single_file"}
    => \A r \in scan.before, q \in rows :
          /\ r.file_path = q.file_path => r.id = q.id
          /\ r.id = q.id => r.file_path = q.file_path

\* C27: the callbacks of a completed scan (one that removed no row) are one
\* progress report for every 10th enumerated file (positions 10, 20, ..) and
\* for no other file, with non-decreasing scanned values, followed by exactly
\* one done signal with scanned = total, which is the last callback.
C27_ProgressEveryTenth ==
    (ScanCompleted /\ scan.removed = {})
    => LET k == Len(scan.calls)
       IN  /\ EndsWithDone
           /\ \A i \in 1..(k - 1) : scan.calls[i].what = "file"
           /\ k - 1 = Cardinality({j \in 1..scan.n : j % Cadence = 0})
           /\ {scan.calls[i].scanned : i \in 1..(k - 1)}
                 = {j \in 1..scan.n : j % Cadence = 0}
           /\ \A i \in 1..(k - 1) : scan.calls[i].scanned <= scan.calls[i + 1].scanned

\* C28: every accepted background request (library scan, podcast scan, sync,
\* export) is followed by exactly one terminal notification, its completion
\* event or its error event, whatever its operation raises: a task that has
\* ended has emitted exactly one.
C28_OneTerminalNotification ==
    \A j \in Threads :
       jobs[j].st = "finished"
       => Len(jobs[j].events) = 1 /\ jobs[j].events[1] \in {"complete", "error"}

\* C29: at most one scan per classification is in flight: no two tasks that
\* were accepted and have not ended are scans of the same classification.
C29_OneScanInFlight ==
    \A i, j \in Threads :
       (/\ i # j
        /\ jobs[i].st \in {"accepted", "running"}
        /\ jobs[j].st \in {"accepted", "running"}
        /\ jobs[i].kind \in {"scan", "podcast_scan"})
       => jobs[i].kind # jobs[j].kind

\* The uploaded file at position i of the last request was received and
\* fingerprinted, and its content is that of a row the cache held when the
\* request came in or that of an earlier file of the same request that was
\* received and fingerprinted.
IsDuplicateUpload(i) ==
    LET fp(k) == ContentFp(scan.calls[k].name)
        hashed(k) == scan.calls[k].name # "z.txt"
                     /\ scan.outs[k] \notin {"save_fail", "hash_fail"}
    IN  /\ hashed(i)
        /\ \/ \E r \in scan.before : r.sha1_hash = fp(i)
           \/ \E k \in 1..(i - 1) : hashed(k) /\ scan.outs[k] = "ok" /\ fp(k) = fp(i)

\* C30: an uploaded file whose fingerprint is that of a file already in the
\* library, or of an earlier file of the same upload request, is reported as a
\* duplicate, its temporary file is deleted, nothing is copied into the library
\* and no row is added for it; no device has to be connected.
C30_DuplicateUploadCaught ==
    scan.op = "library_upload"
    => \A i \in 1..scan.n :
          IsDuplicateUpload(i)
          => /\ scan.calls[i].what = "duplicate"
             /\ scan.calls[i].tmp = "deleted"
             /\ scan.calls[i].dest = ""

\* C31: init_db on a store that init_db has set up before changes no row of
\* library_tracks and no setting, the library path included (the migration
\* of the legacy path does not overwrite it), and it succeeds.
C31_InitDbIdempotent ==
    [][(store.inited /\ scan'.op = "init_db")
       => (rows' = rows /\ allow' = allow /\ store' = store)]_vars

C31_Witness ==
    /\ scan.op = "init_db"
    /\ scan.again
    /\ store.legacy = "/old"
    /\ store.library_path \in {"/new", "null"}
    /\ rows # {}

PodcastRows == {r \in rows : r.is_podcast}

RECURSIVE SumCounts(_, _)
SumCounts(listing, i) ==
    IF i > Len(listing) THEN 0 ELSE listing[i].episode_count + SumCounts(listing, i + 1)

\* The listings partition the podcast rows by the key function Key: every
\* podcast row is in exactly one series of the listing, the one named by its
\* key; the counts sum to the number of podcast rows; the episodes of a series
\* are the rows with that key, as many as the listing counts for it.
PartitionBy(Key(_)) ==
    /\ scan.op = "get_podcast_series_simple"
       => /\ \A r \in PodcastRows :
                Cardinality({i \in DOMAIN scan.calls :
                                scan.calls[i].series_name = Key(r)}) = 1
          /\ \A i, j \in DOMAIN scan.calls :
                scan.calls[i].series_name = scan.calls[j].series_name => i = j
          /\ \A i \in DOMAIN scan.calls :
                scan.calls[i].episode_count =
                   Cardinality({r \in PodcastRows : Key(r) = scan.calls[i].series_name})
          /\ SumCounts(scan.calls, 1) = Cardinality(PodcastRows)
    /\ scan.op = "get_podcast_episodes"
       => LET listing == GetPodcastSeriesSimple(rows)
          IN  /\ scan.extracted =
                    {r.file_path : r \in {x \in PodcastRows : Key(x) = scan.root}}
              /\ \A i \in DOMAIN listing :
                    listing[i].series_name = scan.root
                    => listing[i].episode_count = Cardinality(scan.extracted)

\* The key as the claim has it: the album tag, or the folder name when the
\* album is blank
AlbumOrFolder(r) ==
    IF Strip(r.album) # "" THEN r.album ELSE FolderName(r.file_path)

\* The key with the album tag stripped of surrounding white space, and
\* 'Unknown Podcast' where the path has no folder name
StrippedAlbumOrFolder(r) ==
    IF Strip(r.album) # "" THEN Strip(r.album)
    ELSE IF FolderName(r.file_path) = "" THEN "Unknown Podcast"
    ELSE FolderName(r.file_path)

\* C32 (as stated): the podcast-series listing partitions the podcast rows by
\* the key "album tag, or containing folder name when the album is blank"; the
\* counts sum to the number of podcast rows and the episode listing of a
\* series returns exactly the rows counted for it.
C32_SeriesByAlbumOrFolder == PartitionBy(AlbumOrFolder)

\* C32 (amended): the same with the key "album tag stripped of surrounding
\* white space, or, when that is blank, the containing folder name, or
\* 'Unknown Podcast' when the path has no folder name".
C32_SeriesByStrippedAlbumOrFolder == PartitionBy(StrippedAlbumOrFolder)

C32_Witness ==
    /\ scan.op = "get_podcast_episodes"
    /\ scan.root = "feed"
    /\ Cardinality(scan.extracted) = 2
    /\ Cardinality(PodcastRows) = MaxEpisodes

\* The file at position i of the last scan went through process_single_file
\* up to the extraction of its metadata, and a row was written for it exactly
\* if it is parsable, has an identifying field or is a podcast or the setting
\* allows files without metadata, and its fingerprint was computed.
CachingDecision(i) ==
    LET f == AudioFiles(disk, scan.root, scan.is_video)[i]
    IN  f \in scan.extracted
        => (f \in scan.upserted
            <=> /\ Tags(f) # "corrupt"
                /\ Tags(f) = "identified" \/ scan.is_podcast \/ allow = "1"
                /\ scan.outs[i] # "hash_fail")

\* C33: for a file that needs (re)processing a row is upserted if and only if
\* the file is parsable, it has an identifying field or is a podcast or the
\* setting is enabled, and its fingerprint was computed; otherwise no row is
\* written for it, so every row written carries a fingerprint and no bare
\* non-podcast file is written while the setting is not enabled.
C33_CachingDecision ==
    scan.op = "scan_directory"
    => /\ \A i \in 1..scan.n : CachingDecision(i)
       /\ \A r \in rows :
             r.file_path \in scan.upserted
             => /\ r.sha1_hash = ContentFp(r.file_path)
                /\ r.ident \/ r.is_podcast \/ allow = "1"

\* C34: for every readable file of any size, 2^32 bytes and more included,
\* sha1_hash returns a digest, and two readable files with the same size as a
\* little-endian 32-bit value and the same first 16384 bytes get the same
\* digest; it fails only for a file that cannot be read, with an I/O error.
C34_FingerprintOfAnySize ==
    scan.op = "sha1_hash"
    => /\ \A i \in 1..2 :
             /\ scan.outs[i].readable => scan.calls[i].err = "none"
             /\ ~scan.outs[i].readable => scan.calls[i].err = "OSError"
       /\ (/\ scan.outs[1].readable /\ scan.outs[2].readable
           /\ scan.outs[1].r = scan.outs[2].r
           /\ scan.outs[1].head = scan.outs[2].head)
          => scan.calls[1].digest = scan.calls[2].digest

\* C35: when add_tracks has returned, every track that it reported as added,
\* that was created from a transcoded temporary file and that still waits for
\* its file copy (at the next sync or disconnect) has that temporary file on
\* disk.
C35_TempFileKeptForCopy ==
    (last.op = "add_tracks" /\ last.err = "none")
    => \A tr \in tracks :
          (tr.reported = "added" /\ ~tr.transferred /\ tr.src.tmp # 0)
          => FileExists(tr.src, tempFiles)

\* C36: a candidate that add_tracks reports in errors has no track in the
\* catalog (reported is how the call that created a track classified its
\* candidate): the tracks a call created are those it reports as added.
C36_ErrorsLeaveNoTrack ==
    last.op = "add_tracks"
    => \A tr \in tracks : tr.reported # "error"

\* C37: whenever the session lock is free, the handle and the mountpoint are
\* both set or both cleared, after any sequence of connect, disconnect and
\* sync, failed or not; a connect that fails because the path is no valid
\* device catalog leaves the session Disconnected with no mountpoint.
C37_HandleAndMountpointTogether ==
    /\ lock = 0 => (db = "None" <=> mountpoint = "None")
    /\ (last.op = "connect" /\ last.err = "ConnectFailed")
       => (db = "None" /\ mountpoint = "None")

C37_Witness ==
    /\ lock = 0
    /\ last.op = "sync"
    /\ last.err = "ReopenFailed"
    /\ last.wasMp # "None"
    /\ db = "None"
    /\ mountpoint = "None"

\* C38: duplicate detection depends on the current device catalog only: a
\* candidate is reported as a duplicate only if a track of the catalog carries
\* its fingerprint or an earlier candidate of the same call with that
\* fingerprint was added; after remove_tracks has removed the track carrying
\* a fingerprint, a candidate with it is not skipped. (A track created by the
\* call has no fingerprint before its file is copied, so the catalog after the
\* call carries the fingerprints it carried before.)
C38_NoFingerprintRemembered ==
    (last.op = "add_tracks" /\ last.err = "none")
    => \A i \in DOMAIN last.cls :
          last.cls[i] = "skipped"
          => \/ \E tr \in tracks : tr.hash # 0 /\ tr.hash = last.batch[i].sha1_hash
             \/ \E k \in 1..(i - 1) : /\ last.cls[k] = "added"
                                       /\ last.batch[k].sha1_hash = last.batch[i].sha1_hash

\* Every behaviour of SpecReAdd begins with a track of fingerprint 1 on the
\* device: here it has been removed and a.mp3 has been added again
C38_Witness ==
    /\ last.op = "add_tracks"
    /\ last.err = "none"
    /\ last.batch = <<CHOOSE c \in Lib : c.file_path = "a.mp3">>
    /\ last.cls = <<"added">>
    /\ \A tr \in tracks : tr.hash # 1

\* C39: export_tracks never overwrites a file of the destination: every copy
\* it makes goes to a path at which no file was immediately before the copy,
\* within one run and from one run to the next.
C39_ExportNeverOverwrites ==
    /\ last.op = "export_tracks" => ~last.over
    /\ \A f, g \in dest.files : f.path = g.path => f = g

\* An export that found the name of a track taken by a file of another size
\* and copied the track to a numbered name
C39_Witness ==
    /\ last.op = "export_tracks"
    /\ last.err = "none"
    /\ \E i \in DOMAIN last.cls : last.cls[i] = "exported"
    /\ \E f, g \in dest.files :
          /\ f.path.base = g.path.base /\ f.path.ext = g.path.ext
          /\ f.path.k = 0 /\ g.path.k > 0
          /\ f.size # g.size

====
